---- MODULE Spec2Model ----
(***************************************************************************)
(* A model of scripts/make_clean_mece_csv.py (and of has_value of          *)
(* scripts/audit_coverage.py): the deduplicating, classifying and          *)
(* enriching batch run over a table of study records.                      *)
(*                                                                         *)
(* A Python str is a sequence of one-character strings, so that lower(),   *)
(* strip(), formatting, joining and regular-expression search are computed *)
(* character by character.  None is the one-element sequence NoneVal,      *)
(* which no str equals.                                                    *)
(***************************************************************************)
EXTENDS Integers, Sequences, FiniteSets, TLC

VARIABLES
    pc,         \* where main() (or a single call of a function) stands
    header,     \* the input file's header row, as written in the file
    raw,        \* the input file's data rows, as written in the file
    rows,       \* main's  rows : the dicts read_csv returned
    dedup,      \* main's  dedup: indices into rows (the same dict objects)
    fieldnames, \* main's  fieldnames
    files,      \* the three output paths: NoFile or the table written
    written,    \* the output paths written so far, in order
    exit_msg,   \* how the run ended: SystemExit's message or the exception
    arg,        \* the argument of a single call of a function
    ret         \* what that call returned

pvars == <<header, raw, rows, dedup, fieldnames, files, written, exit_msg>>
cvars == <<arg, ret>>
vars == <<pc, header, raw, rows, dedup, fieldnames, files, written, exit_msg, arg, ret>>

----------------------------------------------------------------------------
(* Characters and str                                                       *)

Digits == {"0","1","2","3","4","5","6","7","8","9"}
LowerAlphabet == <<"a","b","c","d","e","f","g","h","i","j","k","l","m","n","o","p","q","r","s","t","u","v","w","x","y","z">>
UpperAlphabet == <<"A","B","C","D","E","F","G","H","I","J","K","L","M","N","O","P","Q","R","S","T","U","V","W","X","Y","Z">>
LowerLetters == {LowerAlphabet[i] : i \in 1..26}
UpperLetters == {UpperAlphabet[i] : i \in 1..26}
Whitespace == {" ", "\t", "\n", "\r", "\f"}
WordChars == LowerLetters \cup UpperLetters \cup Digits \cup {"_"}

NoneVal == <<"<None>">>
EmptyStr == <<>>

\* Python truthiness of a cell: None and '' are false.
Truthy(v) == v # NoneVal /\ v # EmptyStr

\* x or d
OrElse(x, d) == IF Truthy(x) THEN x ELSE d

\* str.lower(), one character
LowerChar(c) ==
    IF c \in UpperLetters
    THEN LowerAlphabet[CHOOSE i \in 1..26 : UpperAlphabet[i] = c]
    ELSE c

\* str.lower()
Lower(s) == [i \in 1..Len(s) |-> LowerChar(s[i])]

tolower(x) == Lower(OrElse(x, EmptyStr))

\* str.strip()
Strip(s) ==
    LET keep == {i \in 1..Len(s) : s[i] \notin Whitespace}
    IN  IF keep = {} THEN EmptyStr
        ELSE LET lo == CHOOSE i \in keep : \A j \in keep : i <= j
                 hi == CHOOSE i \in keep : \A j \in keep : i >= j
             IN  SubSeq(s, lo, hi)

\* sub in s
StartsAt(s, sub, i) ==
    /\ i + Len(sub) - 1 <= Len(s)
    /\ \A k \in 1..Len(sub) : s[i + k - 1] = sub[k]

Contains(s, sub) == \E i \in 1..(Len(s) + 1) : StartsAt(s, sub, i)

\* sep.join(parts)
RECURSIVE Join(_, _)
Join(parts, sep) ==
    IF parts = <<>> THEN EmptyStr
    ELSE IF Len(parts) = 1 THEN parts[1]
    ELSE parts[1] \o sep \o Join(Tail(parts), sep)

\* s.replace(old, new), old non-empty: leftmost occurrences, not overlapping
RECURSIVE ReplaceFrom(_, _, _, _)
ReplaceFrom(s, old, new, i) ==
    IF i > Len(s) THEN EmptyStr
    ELSE IF StartsAt(s, old, i) THEN new \o ReplaceFrom(s, old, new, i + Len(old))
    ELSE <<s[i]>> \o ReplaceFrom(s, old, new, i + 1)

Replace(s, old, new) == ReplaceFrom(s, old, new, 1)

DigitVal(c) == CHOOSE n \in 0..9 : <<"0","1","2","3","4","5","6","7","8","9">>[n + 1] = c

\* int(s) of a string of decimal digits
RECURSIVE ParseInt(_)
ParseInt(s) ==
    IF s = <<>> THEN 0
    ELSE 10 * ParseInt(SubSeq(s, 1, Len(s) - 1)) + DigitVal(s[Len(s)])

\* str(n), n >= 0
RECURSIVE IntToStr(_)
IntToStr(n) ==
    IF n < 10 THEN <<<<"0","1","2","3","4","5","6","7","8","9">>[n + 1]>>
    ELSE IntToStr(n \div 10) \o <<<<"0","1","2","3","4","5","6","7","8","9">>[(n % 10) + 1]>>

\* f"{n:02d}", n >= 0
Fmt02d(n) == IF n < 10 THEN <<"0">> \o IntToStr(n) ELSE IntToStr(n)

----------------------------------------------------------------------------
(* re.search: a regex is a tree of nodes lit, set, dot, cat, alt, opt,     *)
(* star and wb (\b); Ends(re, s, i) is the set of positions at which a     *)
(* match of re that starts at position i of s can end.                     *)

IsWordAt(s, i) == i >= 1 /\ i <= Len(s) /\ s[i] \in WordChars

RECURSIVE Ends(_, _, _)
RECURSIVE CatEnds(_, _, _, _)
RECURSIVE StarEnds(_, _, _, _)

Ends(re, s, i) ==
    CASE re.k = "lit" -> IF StartsAt(s, re.s, i) THEN {i + Len(re.s)} ELSE {}
      [] re.k = "set" -> IF i <= Len(s) /\ s[i] \in re.cs THEN {i + 1} ELSE {}
      [] re.k = "dot" -> IF i <= Len(s) /\ s[i] # "\n" THEN {i + 1} ELSE {}
      [] re.k = "wb"  -> IF IsWordAt(s, i - 1) # IsWordAt(s, i) THEN {i} ELSE {}
      [] re.k = "opt" -> {i} \cup Ends(re.r, s, i)
      [] re.k = "alt" -> UNION {Ends(re.rs[n], s, i) : n \in 1..Len(re.rs)}
      [] re.k = "cat" -> CatEnds(re.rs, 1, s, {i})
      [] re.k = "star" -> StarEnds(re.r, s, {i}, {i})

CatEnds(rs, n, s, from) ==
    IF n > Len(rs) \/ from = {} THEN from
    ELSE CatEnds(rs, n + 1, s, UNION {Ends(rs[n], s, i) : i \in from})

StarEnds(r, s, frontier, acc) ==
    LET next == (UNION {Ends(r, s, i) : i \in frontier}) \ acc
    IN  IF next = {} THEN acc ELSE StarEnds(r, s, next, acc \cup next)

\* bool(re.search(re, s))
Search(re, s) == \E i \in 1..(Len(s) + 1) : Ends(re, s, i) # {}

----------------------------------------------------------------------------
(* normalize_design                                                         *)

ReRct == [k |-> "alt", rs |-> <<[k |-> "cat", rs |-> <<[k |-> "lit", s |-> <<"r","a","n","d","o","m","i">>], [k |-> "set", cs |-> {"s"} \cup {"z"}], [k |-> "lit", s |-> <<"e","d">>]>>], [k |-> "lit", s |-> <<"r","a","n","d","o","m","i","z","e","d"," ","c","o","n","t","r","o","l","l","e","d"," ","t","r","i","a","l">>], [k |-> "lit", s |-> <<"r","a","n","d","o","m","i","s","e","d"," ","c","o","n","t","r","o","l","l","e","d"," ","t","r","i","a","l">>], [k |-> "cat", rs |-> <<[k |-> "wb"], [k |-> "lit", s |-> <<"r","c","t">>], [k |-> "wb"]>>]>>]
ReSecondary == [k |-> "alt", rs |-> <<[k |-> "cat", rs |-> <<[k |-> "lit", s |-> <<"p","o","s","t">>], [k |-> "opt", r |-> [k |-> "lit", s |-> <<"-">>]], [k |-> "lit", s |-> <<"h","o","c">>], [k |-> "star", r |-> [k |-> "dot"]], [k |-> "lit", s |-> <<"r","a","n","d","o","m">>]>>], [k |-> "cat", rs |-> <<[k |-> "lit", s |-> <<"s","e","c","o","n","d","a","r","y"," ","a","n","a","l","y","s","i","s">>], [k |-> "star", r |-> [k |-> "dot"]], [k |-> "lit", s |-> <<"r","a","n","d","o","m">>]>>], [k |-> "cat", rs |-> <<[k |-> "lit", s |-> <<"s","e","c","o","n","d","a","r","y">>], [k |-> "star", r |-> [k |-> "dot"]], [k |-> "lit", s |-> <<"r","c","t">>]>>]>>]
ReBeforeAfter == [k |-> "alt", rs |-> <<[k |-> "cat", rs |-> <<[k |-> "lit", s |-> <<"b","e","f","o","r","e">>], [k |-> "opt", r |-> [k |-> "lit", s |-> <<"-">>]], [k |-> "lit", s |-> <<"a","f","t","e","r">>]>>], [k |-> "cat", rs |-> <<[k |-> "lit", s |-> <<"p","r","e">>], [k |-> "opt", r |-> [k |-> "set", cs |-> {"-"} \cup {" "}]], [k |-> "lit", s |-> <<"p","o","s","t">>]>>], [k |-> "cat", rs |-> <<[k |-> "lit", s |-> <<"p","r","e">>], [k |-> "star", r |-> [k |-> "dot"]], [k |-> "lit", s |-> <<"p","o","s","t">>]>>]>>]
ReCohort == [k |-> "alt", rs |-> <<[k |-> "lit", s |-> <<"c","o","h","o","r","t">>], [k |-> "lit", s |-> <<"l","o","n","g","i","t","u","d","i","n","a","l">>], [k |-> "lit", s |-> <<"p","r","o","s","p","e","c","t","i","v","e"," ","o","b","s","e","r","v","a","t","i","o","n","a","l"," ","c","o","h","o","r","t">>], [k |-> "lit", s |-> <<"p","r","o","s","p","e","c","t","i","v","e"," ","c","o","h","o","r","t">>]>>]
ReCrossSectional == [k |-> "alt", rs |-> <<[k |-> "cat", rs |-> <<[k |-> "lit", s |-> <<"c","r","o","s","s">>], [k |-> "opt", r |-> [k |-> "set", cs |-> {"-"} \cup {" "}]], [k |-> "lit", s |-> <<"s","e","c","t","i","o","n","a","l">>]>>], [k |-> "lit", s |-> <<"d","e","s","c","r","i","p","t","i","v","e"," ","a","n","a","l","y","s","i","s">>], [k |-> "lit", s |-> <<"s","u","r","v","e","y">>]>>]
ReSurveillance == [k |-> "lit", s |-> <<"s","u","r","v","e","i","l","l","a","n","c","e">>]
ReLaboratory == [k |-> "cat", rs |-> <<[k |-> "lit", s |-> <<"l","a","b","o","r","a","t","o","r","y">>], [k |-> "alt", rs |-> <<[k |-> "cat", rs |-> <<>>], [k |-> "lit", s |-> <<"-","b","a","s","e","d">>]>>]>>]
ReObservationalCohort == [k |-> "lit", s |-> <<"o","b","s","e","r","v","a","t","i","o","n","a","l"," ","c","o","h","o","r","t">>]
ReMulticentre == [k |-> "cat", rs |-> <<[k |-> "lit", s |-> <<"m","u","l","t","i","c","e","n","t">>], [k |-> "alt", rs |-> <<[k |-> "lit", s |-> <<"r","e">>], [k |-> "lit", s |-> <<"e","r">>]>>]>>]
ReCrossOnly == [k |-> "cat", rs |-> <<[k |-> "lit", s |-> <<"c","r","o","s","s">>], [k |-> "opt", r |-> [k |-> "set", cs |-> {"-"} \cup {" "}]], [k |-> "lit", s |-> <<"s","e","c","t","i","o","n","a","l">>]>>]

LabelRCT == <<"R","C","T">>
LabelSecondary == <<"S","e","c","o","n","d","a","r","y"," ","a","n","a","l","y","s","i","s"," ","(","R","C","T",")">>
LabelBeforeAfter == <<"B","e","f","o","r","e","-","a","f","t","e","r">>
LabelCohort == <<"C","o","h","o","r","t">>
LabelCrossSectional == <<"C","r","o","s","s","-","s","e","c","t","i","o","n","a","l">>
LabelSurveillance == <<"S","u","r","v","e","i","l","l","a","n","c","e">>
LabelLaboratory == <<"L","a","b","o","r","a","t","o","r","y","-","b","a","s","e","d">>
LabelOther == <<"O","t","h","e","r">>

normalize_design_NoCatchAll(val) ==
    LET x == tolower(val)
    IN  IF Search(ReRct, x) THEN LabelRCT
        ELSE IF Search(ReSecondary, x) THEN LabelSecondary
        ELSE IF Search(ReBeforeAfter, x) THEN LabelBeforeAfter
        ELSE IF Search(ReCohort, x) THEN LabelCohort
        ELSE IF Search(ReCrossSectional, x) THEN LabelCrossSectional
        ELSE IF Search(ReSurveillance, x) THEN LabelSurveillance
        ELSE IF Search(ReLaboratory, x) THEN LabelLaboratory
        ELSE IF Search(ReObservationalCohort, x) THEN LabelCohort
        ELSE IF Search(ReMulticentre, x) /\ Search(ReCrossOnly, x) THEN LabelCrossSectional
        ELSE Strip(OrElse(val, EmptyStr))

normalize_design(val) ==
    LET x == tolower(val)
    IN  IF Search(ReRct, x) THEN LabelRCT
        ELSE IF Search(ReSecondary, x) THEN LabelSecondary
        ELSE IF Search(ReBeforeAfter, x) THEN LabelBeforeAfter
        ELSE IF Search(ReCohort, x) THEN LabelCohort
        ELSE IF Search(ReCrossSectional, x) THEN LabelCrossSectional
        ELSE IF Search(ReSurveillance, x) THEN LabelSurveillance
        ELSE IF Search(ReLaboratory, x) THEN LabelLaboratory
        ELSE IF Search(ReObservationalCohort, x) THEN LabelCohort
        ELSE IF Search(ReMulticentre, x) /\ Search(ReCrossOnly, x) THEN LabelCrossSectional
        ELSE LabelOther

----------------------------------------------------------------------------
(* tag_by_patterns and main's five rule sets (a dict in declaration order  *)
(* is a sequence of name/pattern pairs)                                     *)

drivers_patterns == <<
    [name |-> <<"A","n","t","i","b","i","o","t","i","c"," ","m","i","s","u","s","e","/","o","v","e","r","u","s","e">>, pat |-> [k |-> "alt", rs |-> <<[k |-> "lit", s |-> <<"m","i","s","u","s","e">>], [k |-> "lit", s |-> <<"o","v","e","r","u","s","e">>], [k |-> "lit", s |-> <<"i","r","r","a","t","i","o","n","a","l">>], [k |-> "lit", s |-> <<"i","n","j","u","d","i","c","i","o","u","s">>], [k |-> "lit", s |-> <<"i","n","a","p","p","r","o","p","r","i","a","t","e">>], [k |-> "lit", s |-> <<"e","m","p","i","r","i","c">>], [k |-> "lit", s |-> <<"e","m","p","i","r","i","c","a","l">>], [k |-> "cat", rs |-> <<[k |-> "lit", s |-> <<"b","r","o","a","d">>], [k |-> "opt", r |-> [k |-> "lit", s |-> <<"-">>]], [k |-> "lit", s |-> <<"s","p","e","c","t","r","u","m">>]>>]>>]],
    [name |-> <<"O","T","C","/","n","o","-","p","r","e","s","c","r","i","p","t","i","o","n"," ","a","c","c","e","s","s">>, pat |-> [k |-> "alt", rs |-> <<[k |-> "cat", rs |-> <<[k |-> "lit", s |-> <<"o","v","e","r">>], [k |-> "opt", r |-> [k |-> "set", cs |-> {"-"} \cup {" "}]], [k |-> "lit", s |-> <<"t","h","e">>], [k |-> "opt", r |-> [k |-> "set", cs |-> {"-"} \cup {" "}]], [k |-> "lit", s |-> <<"c","o","u","n","t","e","r">>]>>], [k |-> "lit", s |-> <<"o","t","c">>], [k |-> "cat", rs |-> <<[k |-> "lit", s |-> <<"w","i","t","h","o","u","t"," ">>], [k |-> "opt", r |-> [k |-> "lit", s |-> <<"a"," ">>]], [k |-> "lit", s |-> <<"p","r","e","s","c","r","i","p","t","i","o","n">>]>>], [k |-> "lit", s |-> <<"s","o","l","d"," ","w","i","t","h","o","u","t"," ","p","r","e","s","c","r","i","p","t","i","o","n">>], [k |-> "cat", rs |-> <<[k |-> "lit", s |-> <<"s","e","l","f">>], [k |-> "opt", r |-> [k |-> "lit", s |-> <<"-">>]], [k |-> "lit", s |-> <<"m","e","d","i","c","a","t","i","o","n">>]>>], [k |-> "cat", rs |-> <<[k |-> "lit", s |-> <<"s","e","l","f">>], [k |-> "opt", r |-> [k |-> "set", cs |-> {"-"} \cup {" "}]], [k |-> "lit", s |-> <<"t","r","e","a","t","m","e","n","t">>]>>]>>]],
    [name |-> <<"P","o","o","r"," ","I","P","C","/","a","s","e","p","s","i","s">>, pat |-> [k |-> "alt", rs |-> <<[k |-> "cat", rs |-> <<[k |-> "lit", s |-> <<"p","o","o","r"," ">>], [k |-> "alt", rs |-> <<[k |-> "lit", s |-> <<"i","n","f","e","c","t","i","o","n">>], [k |-> "lit", s |-> <<"a","s","e","p","t","i","c">>]>>]>>], [k |-> "lit", s |-> <<"l","a","c","k"," ","o","f"," ","a","s","e","p","t","i","c">>], [k |-> "lit", s |-> <<"s","t","e","r","i","l","i","z","a","t","i","o","n">>], [k |-> "lit", s |-> <<"h","y","g","i","e","n","e">>], [k |-> "lit", s |-> <<"h","a","n","d">>], [k |-> "lit", s |-> <<"c","o","n","t","a","m","i","n","a","t","i","o","n">>], [k |-> "lit", s |-> <<"a","s","e","p","s","i","s">>], [k |-> "lit", s |-> <<"i","p","c">>], [k |-> "lit", s |-> <<"i","n","f","e","c","t","i","o","n"," ","c","o","n","t","r","o","l">>]>>]],
    [name |-> <<"P","r","o","l","o","n","g","e","d"," ","p","r","o","p","h","y","l","a","x","i","s">>, pat |-> [k |-> "alt", rs |-> <<[k |-> "cat", rs |-> <<[k |-> "lit", s |-> <<"p","r","o","l","o","n","g">>], [k |-> "cat", rs |-> <<[k |-> "lit", s |-> <<"e","d">>], [k |-> "alt", rs |-> <<[k |-> "cat", rs |-> <<>>], [k |-> "cat", rs |-> <<>>]>>]>>], [k |-> "lit", s |-> <<" ","p","r","o","p","h","y","l","a","x","i","s">>]>>], [k |-> "lit", s |-> <<"l","o","n","g"," ","d","u","r","a","t","i","o","n"," ","p","r","o","p","h","y","l","a","x","i","s">>], [k |-> "cat", rs |-> <<[k |-> "lit", s |-> <<"p","o","s","t">>], [k |-> "opt", r |-> [k |-> "set", cs |-> {"-"} \cup {" "}]], [k |-> "lit", s |-> <<"o","p","e","r","a","t","i","v","e"," ","a","n","t","i","b","i","o","t","i","c","s">>]>>]>>]],
    [name |-> <<"L","a","c","k"," ","o","f"," ","s","t","e","w","a","r","d","s","h","i","p">>, pat |-> [k |-> "alt", rs |-> <<[k |-> "cat", rs |-> <<[k |-> "lit", s |-> <<"l","a","c","k"," ","o","f"," ">>], [k |-> "opt", r |-> [k |-> "lit", s |-> <<"a","n","t","i","m","i","c","r","o","b","i","a","l"," ">>]], [k |-> "lit", s |-> <<"s","t","e","w","a","r","d","s","h","i","p">>]>>], [k |-> "lit", s |-> <<"n","o"," ","s","t","e","w","a","r","d","s","h","i","p">>], [k |-> "lit", s |-> <<"a","b","s","e","n","c","e"," ","o","f"," ","s","t","e","w","a","r","d","s","h","i","p">>]>>]],
    [name |-> <<"L","i","m","i","t","e","d"," ","d","i","a","g","n","o","s","t","i","c","s","/","l","a","b">>, pat |-> [k |-> "alt", rs |-> <<[k |-> "cat", rs |-> <<[k |-> "lit", s |-> <<"l","a","c","k"," ","o","f"," ">>], [k |-> "opt", r |-> [k |-> "lit", s |-> <<"r","o","u","t","i","n","e"," ">>]], [k |-> "lit", s |-> <<"c","u","l","t","u","r","e">>]>>], [k |-> "lit", s |-> <<"n","o"," ","m","i","c","r","o","b","i","o","l","o","g">>], [k |-> "lit", s |-> <<"l","i","m","i","t","e","d"," ","d","i","a","g","n","o","s","t","i","c">>], [k |-> "cat", rs |-> <<[k |-> "lit", s |-> <<"l","a","c","k"," ","o","f"," ">>], [k |-> "cat", rs |-> <<[k |-> "lit", s |-> <<"l","a","b">>], [k |-> "alt", rs |-> <<[k |-> "lit", s |-> <<"o","r","a","t","o","r">>], [k |-> "cat", rs |-> <<>>]>>]>>], [k |-> "lit", s |-> <<" ","c","a","p","a","c","i","t","y">>]>>]>>]],
    [name |-> <<"L","o","n","g"," ","s","t","a","y","/","o","v","e","r","c","r","o","w","d","i","n","g">>, pat |-> [k |-> "alt", rs |-> <<[k |-> "lit", s |-> <<"p","r","o","l","o","n","g","e","d"," ","h","o","s","p","i","t","a","l"," ","s","t","a","y">>], [k |-> "lit", s |-> <<"o","v","e","r","c","r","o","w","d">>], [k |-> "cat", rs |-> <<[k |-> "lit", s |-> <<"l","o","n","g">>], [k |-> "opt", r |-> [k |-> "lit", s |-> <<"e","r">>]], [k |-> "lit", s |-> <<" ","h","o","s","p","i","t","a","l"," ","s","t","a","y">>]>>]>>]],
    [name |-> <<"G","u","i","d","e","l","i","n","e"," ","n","o","n","-","a","d","h","e","r","e","n","c","e">>, pat |-> [k |-> "alt", rs |-> <<[k |-> "cat", rs |-> <<[k |-> "lit", s |-> <<"l","a","c","k"," ","o","f"," ","a","d","h","e","r","e","n","c","e"," ","t","o"," ">>], [k |-> "alt", rs |-> <<[k |-> "lit", s |-> <<"g","u","i","d","e","l","i","n","e","s">>], [k |-> "lit", s |-> <<"p","r","o","t","o","c","o","l">>]>>]>>], [k |-> "cat", rs |-> <<[k |-> "lit", s |-> <<"n","o","n">>], [k |-> "set", cs |-> {"-"} \cup {" "}], [k |-> "lit", s |-> <<"a","d","h","e","r","e","n","c","e">>]>>]>>]],
    [name |-> <<"S","u","p","p","l","y","/","d","r","u","g"," ","q","u","a","l","i","t","y">>, pat |-> [k |-> "alt", rs |-> <<[k |-> "lit", s |-> <<"p","o","o","r"," ","q","u","a","l","i","t","y"," ","d","r","u","g">>], [k |-> "lit", s |-> <<"d","u","m","p","i","n","g">>], [k |-> "lit", s |-> <<"s","u","p","p","l","y"," ","c","h","a","i","n">>]>>]],
    [name |-> <<"C","o","m","m","u","n","i","t","y"," ","f","a","c","t","o","r","s">>, pat |-> [k |-> "alt", rs |-> <<[k |-> "lit", s |-> <<"c","o","m","m","u","n","i","t","y">>], [k |-> "lit", s |-> <<"d","r","u","g"," ","p","r","e","s","s","u","r","e">>]>>]] >>

interv_patterns == <<
    [name |-> <<"I","P","C"," ","m","e","a","s","u","r","e","s">>, pat |-> [k |-> "alt", rs |-> <<[k |-> "lit", s |-> <<"i","n","f","e","c","t","i","o","n"," ","p","r","e","v","e","n","t","i","o","n">>], [k |-> "lit", s |-> <<"i","p","c">>], [k |-> "lit", s |-> <<"o","p","e","r","a","t","i","n","g"," ","t","h","e","a","t","r","e"," ","d","i","s","c","i","p","l","i","n","e">>], [k |-> "lit", s |-> <<"s","k","i","n"," ","d","i","s","i","n","f","e","c","t","i","o","n">>], [k |-> "lit", s |-> <<"s","t","e","r","i","l","i","z">>]>>]],
    [name |-> <<"A","M","S"," ","p","r","o","g","r","a","m">>, pat |-> [k |-> "cat", rs |-> <<[k |-> "lit", s |-> <<"a">>], [k |-> "alt", rs |-> <<[k |-> "lit", s |-> <<"n","t","i","m","i","c","r","o","b","i","a","l"," ","s","t","e","w","a","r","d","s","h","i","p">>], [k |-> "lit", s |-> <<"m","s">>]>>]>>]],
    [name |-> <<"S","u","r","v","e","i","l","l","a","n","c","e"," ","(","S","S","I","/","A","M","R",")">>, pat |-> [k |-> "alt", rs |-> <<[k |-> "lit", s |-> <<"s","u","r","v","e","i","l","l","a","n","c","e">>], [k |-> "lit", s |-> <<"m","o","n","i","t","o","r","i","n","g">>], [k |-> "lit", s |-> <<"p","e","r","i","o","d","i","c"," ","p","r","o","f","i","l","i","n","g">>]>>]],
    [name |-> <<"G","u","i","d","e","l","i","n","e","s","/","p","r","o","t","o","c","o","l","s">>, pat |-> [k |-> "alt", rs |-> <<[k |-> "lit", s |-> <<"g","u","i","d","e","l","i","n","e">>], [k |-> "lit", s |-> <<"p","r","o","t","o","c","o","l">>], [k |-> "lit", s |-> <<"p","o","l","i","c","y">>], [k |-> "lit", s |-> <<"s","t","a","n","d","a","r","d"," ","o","p","e","r","a","t","i","n","g">>]>>]],
    [name |-> <<"P","r","e","-","i","n","c","i","s","i","o","n"," ","p","r","o","p","h","y","l","a","x","i","s">>, pat |-> [k |-> "cat", rs |-> <<[k |-> "lit", s |-> <<"p","r">>], [k |-> "alt", rs |-> <<[k |-> "cat", rs |-> <<[k |-> "lit", s |-> <<"e">>], [k |-> "opt", r |-> [k |-> "set", cs |-> {"-"} \cup {" "}]], [k |-> "lit", s |-> <<"i","n","c","i","s","i","o","n">>]>>], [k |-> "cat", rs |-> <<[k |-> "lit", s |-> <<"o","p","h","y","l","a","x","i","s">>], [k |-> "star", r |-> [k |-> "dot"]], [k |-> "lit", s |-> <<"3","0">>], [k |-> "opt", r |-> [k |-> "set", cs |-> {"-"} \cup {" "}]], [k |-> "lit", s |-> <<"6","0">>]>>]>>]>>]],
    [name |-> <<"E","d","u","c","a","t","i","o","n","/","t","r","a","i","n","i","n","g">>, pat |-> [k |-> "alt", rs |-> <<[k |-> "lit", s |-> <<"t","r","a","i","n","i","n","g">>], [k |-> "lit", s |-> <<"e","d","u","c","a","t","i","o","n">>], [k |-> "lit", s |-> <<"s","e","m","i","n","a","r">>], [k |-> "cat", rs |-> <<[k |-> "lit", s |-> <<"o","n">>], [k |-> "opt", r |-> [k |-> "lit", s |-> <<"-">>]], [k |-> "lit", s |-> <<"j","o","b">>]>>]>>]],
    [name |-> <<"D","i","a","g","n","o","s","t","i","c","s","/","A","S","T"," ","e","x","p","a","n","s","i","o","n">>, pat |-> [k |-> "alt", rs |-> <<[k |-> "lit", s |-> <<"c","u","l","t","u","r","e">>], [k |-> "lit", s |-> <<"s","u","s","c","e","p","t","i","b","i","l","i","t","y"," ","t","e","s","t","i","n","g">>], [k |-> "lit", s |-> <<"a","s","t">>], [k |-> "lit", s |-> <<"d","i","a","g","n","o","s","t","i","c">>]>>]],
    [name |-> <<"S","u","r","g","i","c","a","l"," ","p","r","a","c","t","i","c","e"," ","c","h","a","n","g","e">>, pat |-> [k |-> "alt", rs |-> <<[k |-> "lit", s |-> <<"t","r","i","c","o","s","a","n">>], [k |-> "lit", s |-> <<"t","r","i","c","l","o","s","a","n">>], [k |-> "lit", s |-> <<"s","k","i","n"," ","p","r","e","p","a","r","a","t","i","o","n">>], [k |-> "lit", s |-> <<"g","l","o","v","e">>], [k |-> "lit", s |-> <<"i","n","s","t","r","u","m","e","n","t"," ","c","h","a","n","g","e">>], [k |-> "lit", s |-> <<"s","u","t","u","r","e">>]>>]],
    [name |-> <<"C","a","p","a","c","i","t","y"," ","b","u","i","l","d","i","n","g","/","l","a","b">>, pat |-> [k |-> "alt", rs |-> <<[k |-> "lit", s |-> <<"l","a","b","o","r","a","t","o","r","y"," ","c","a","p","a","b","i","l","i","t","y">>], [k |-> "lit", s |-> <<"a","c","c","r","e","d","i","t","a","t","i","o","n">>], [k |-> "lit", s |-> <<"s","l","i","p","t","a">>], [k |-> "lit", s |-> <<"c","a","p","a","c","i","t","y">>]>>]] >>

gaps_patterns == <<
    [name |-> <<"A","n","a","e","r","o","b","e","s","/","f","u","n","g","i"," ","n","o","t"," ","a","s","s","e","s","s","e","d">>, pat |-> [k |-> "alt", rs |-> <<[k |-> "lit", s |-> <<"a","n","a","e","r","o","b">>], [k |-> "lit", s |-> <<"f","u","n","g">>]>>]],
    [name |-> <<"L","i","m","i","t","e","d"," ","s","u","r","v","e","i","l","l","a","n","c","e","/","d","a","t","a">>, pat |-> [k |-> "alt", rs |-> <<[k |-> "cat", rs |-> <<[k |-> "lit", s |-> <<"l","i","m","i","t","e","d"," ">>], [k |-> "alt", rs |-> <<[k |-> "lit", s |-> <<"s","u","r","v","e","i","l","l","a","n","c","e">>], [k |-> "lit", s |-> <<"d","a","t","a">>]>>]>>], [k |-> "cat", rs |-> <<[k |-> "lit", s |-> <<"l","a","c","k"," ","o","f"," ">>], [k |-> "alt", rs |-> <<[k |-> "lit", s |-> <<"s","u","r","v","e","i","l","l","a","n","c","e">>], [k |-> "lit", s |-> <<"d","a","t","a">>]>>]>>], [k |-> "lit", s |-> <<"p","a","u","c","i","t","y">>]>>]],
    [name |-> <<"N","o"," ","m","o","l","e","c","u","l","a","r"," ","t","e","s","t","i","n","g">>, pat |-> [k |-> "alt", rs |-> <<[k |-> "lit", s |-> <<"l","a","c","k"," ","o","f"," ","m","o","l","e","c","u","l","a","r">>], [k |-> "lit", s |-> <<"g","e","n","o","m","i","c">>], [k |-> "lit", s |-> <<"m","o","l","e","c","u","l","a","r"," ","e","p","i","d","e","m","i","o","l","o","g">>]>>]],
    [name |-> <<"S","m","a","l","l","/","l","i","m","i","t","e","d"," ","g","e","n","e","r","a","l","i","z","a","b","i","l","i","t","y">>, pat |-> [k |-> "alt", rs |-> <<[k |-> "lit", s |-> <<"s","m","a","l","l"," ","s","a","m","p","l","e">>], [k |-> "cat", rs |-> <<[k |-> "lit", s |-> <<"s","i","n","g","l","e"," ">>], [k |-> "cat", rs |-> <<[k |-> "lit", s |-> <<"c","e","n","t">>], [k |-> "alt", rs |-> <<[k |-> "lit", s |-> <<"e","r">>], [k |-> "lit", s |-> <<"r","e">>]>>]>>]>>], [k |-> "lit", s |-> <<"l","i","m","i","t","e","d"," ","g","e","n","e","r","a","l","i","z","a","b","i","l","i","t","y">>], [k |-> "lit", s |-> <<"s","h","o","r","t"," ","s","t","u","d","y">>]>>]],
    [name |-> <<"L","o","s","t"," ","t","o"," ","f","o","l","l","o","w","-","u","p">>, pat |-> [k |-> "cat", rs |-> <<[k |-> "lit", s |-> <<"l","o","s">>], [k |-> "alt", rs |-> <<[k |-> "lit", s |-> <<"s"," ","t","o"," ","f","o","l","l","o","w">>], [k |-> "lit", s |-> <<"t"," ","t","o"," ","f","o","l","l","o","w">>]>>]>>]],
    [name |-> <<"N","o"," ","s","t","a","n","d","a","r","d","i","z","e","d"," ","d","i","a","g","n","o","s","i","s">>, pat |-> [k |-> "alt", rs |-> <<[k |-> "lit", s |-> <<"l","a","c","k"," ","o","f"," ","s","t","a","n","d","a","r","d","i","z","e","d"," ","d","i","a","g","n","o","s","i","s">>], [k |-> "lit", s |-> <<"d","i","a","g","n","o","s","t","i","c"," ","c","r","i","t","e","r","i","a">>]>>]],
    [name |-> <<"M","i","s","s","i","n","g"," ","o","u","t","c","o","m","e","s","/","e","c","o","n","o","m","i","c">>, pat |-> [k |-> "cat", rs |-> <<[k |-> "lit", s |-> <<"n","o"," ","d","a","t","a"," ","o","n"," ">>], [k |-> "alt", rs |-> <<[k |-> "lit", s |-> <<"m","o","r","t","a","l","i","t","y">>], [k |-> "lit", s |-> <<"e","c","o","n","o","m","i","c">>], [k |-> "lit", s |-> <<"c","o","s","t">>], [k |-> "lit", s |-> <<"l","e","n","g","t","h"," ","o","f"," ","s","t","a","y">>], [k |-> "cat", rs |-> <<[k |-> "lit", s |-> <<"r","e">>], [k |-> "opt", r |-> [k |-> "lit", s |-> <<"-">>]], [k |-> "lit", s |-> <<"o","p","e","r","a","t","i","o","n">>]>>], [k |-> "lit", s |-> <<"r","e","a","d","m","i","s","s","i","o","n">>]>>]>>]],
    [name |-> <<"R","e","s","o","u","r","c","e"," ","c","o","n","s","t","r","a","i","n","t","s">>, pat |-> [k |-> "alt", rs |-> <<[k |-> "lit", s |-> <<"r","e","s","o","u","r","c","e"," ","c","o","n","s","t","r","a","i","n","t">>], [k |-> "lit", s |-> <<"f","i","n","a","n","c","i","a","l">>]>>]],
    [name |-> <<"P","o","l","i","c","y","/","g","u","i","d","e","l","i","n","e"," ","g","a","p","s">>, pat |-> [k |-> "cat", rs |-> <<[k |-> "lit", s |-> <<"l","a","c","k"," ","o","f"," ">>], [k |-> "alt", rs |-> <<[k |-> "lit", s |-> <<"g","u","i","d","e","l","i","n","e">>], [k |-> "lit", s |-> <<"p","o","l","i","c","y">>]>>]>>]] >>

policy_patterns == <<
    [name |-> <<"N","a","t","i","o","n","a","l"," ","s","u","r","v","e","i","l","l","a","n","c","e"," ","a","b","s","e","n","t">>, pat |-> [k |-> "alt", rs |-> <<[k |-> "cat", rs |-> <<[k |-> "lit", s |-> <<"n","o"," ">>], [k |-> "opt", r |-> [k |-> "lit", s |-> <<"n","a","t","i","o","n","a","l"," ">>]], [k |-> "lit", s |-> <<"s","u","r","v","e","i","l","l","a","n","c","e">>]>>], [k |-> "lit", s |-> <<"l","a","c","k"," ","o","f"," ","s","u","r","v","e","i","l","l","a","n","c","e"," ","s","y","s","t","e","m">>]>>]],
    [name |-> <<"A","M","S"," ","a","b","s","e","n","t","/","n","e","e","d","e","d">>, pat |-> [k |-> "alt", rs |-> <<[k |-> "cat", rs |-> <<[k |-> "lit", s |-> <<"s","t","e","w","a","r","d","s","h","i","p"," ">>], [k |-> "alt", rs |-> <<[k |-> "lit", s |-> <<"n","e","e","d","e","d">>], [k |-> "lit", s |-> <<"l","a","c","k","i","n","g">>], [k |-> "lit", s |-> <<"a","b","s","e","n","t">>]>>]>>], [k |-> "lit", s |-> <<"n","e","e","d"," ","f","o","r"," ","a","m","s">>]>>]],
    [name |-> <<"L","a","b"," ","c","a","p","a","c","i","t","y"," ","l","i","m","i","t","e","d">>, pat |-> [k |-> "alt", rs |-> <<[k |-> "lit", s |-> <<"l","i","m","i","t","e","d"," ","l","a","b","o","r","a","t","o","r">>], [k |-> "lit", s |-> <<"l","a","c","k"," ","o","f"," ","l","a","b","o","r","a","t","o","r">>], [k |-> "cat", rs |-> <<[k |-> "lit", s |-> <<"n","o"," ","r","o","u","t","i","n","e"," ">>], [k |-> "alt", rs |-> <<[k |-> "lit", s |-> <<"a","s","t">>], [k |-> "lit", s |-> <<"c","u","l","t","u","r","e">>]>>]>>]>>]],
    [name |-> <<"A","c","c","r","e","d","i","t","a","t","i","o","n","/","i","m","p","r","o","v","i","n","g">>, pat |-> [k |-> "alt", rs |-> <<[k |-> "lit", s |-> <<"s","l","i","p","t","a">>], [k |-> "lit", s |-> <<"a","c","c","r","e","d","i","t">>], [k |-> "lit", s |-> <<"q","u","a","l","i","t","y"," ","c","o","n","t","r","o","l">>]>>]],
    [name |-> <<"G","u","i","d","e","l","i","n","e","s"," ","p","r","e","s","e","n","t","/","a","b","s","e","n","t">>, pat |-> [k |-> "alt", rs |-> <<[k |-> "lit", s |-> <<"g","u","i","d","e","l","i","n","e">>], [k |-> "lit", s |-> <<"p","r","o","t","o","c","o","l">>]>>]],
    [name |-> <<"R","e","g","u","l","a","t","o","r","y"," ","w","e","a","k">>, pat |-> [k |-> "alt", rs |-> <<[k |-> "cat", rs |-> <<[k |-> "lit", s |-> <<"r","e","g","u","l","a","t","o","r">>], [k |-> "opt", r |-> [k |-> "lit", s |-> <<"y">>]], [k |-> "lit", s |-> <<" ">>], [k |-> "alt", rs |-> <<[k |-> "lit", s |-> <<"w","e","a","k">>], [k |-> "lit", s |-> <<"a","b","s","e","n","c","e">>]>>]>>], [k |-> "lit", s |-> <<"o","v","e","r"," ","t","h","e"," ","c","o","u","n","t","e","r">>], [k |-> "lit", s |-> <<"w","i","t","h","o","u","t"," ","p","r","e","s","c","r","i","p","t","i","o","n">>]>>]],
    [name |-> <<"C","o","o","r","d","i","n","a","t","i","o","n"," ","n","e","e","d","e","d">>, pat |-> [k |-> "cat", rs |-> <<[k |-> "lit", s |-> <<"c">>], [k |-> "alt", rs |-> <<[k |-> "cat", rs |-> <<[k |-> "lit", s |-> <<"e","n","t","r","a","l">>], [k |-> "opt", r |-> [k |-> "lit", s |-> <<"i","z","e","d">>]], [k |-> "lit", s |-> <<" ","b","o","d","y">>]>>], [k |-> "lit", s |-> <<"o","o","r","d","i","n","a","t","i","n","g"," ","b","o","d","y">>]>>]>>]] >>

econ_patterns == <<
    [name |-> <<"H","o","s","p","i","t","a","l"," ","c","o","s","t"," ","s","a","v","i","n","g","s">>, pat |-> [k |-> "alt", rs |-> <<[k |-> "lit", s |-> <<"c","o","s","t"," ","s","a","v","i","n","g">>], [k |-> "lit", s |-> <<"s","a","v","i","n","g","s">>]>>]],
    [name |-> <<"P","a","t","i","e","n","t"," ","o","u","t","-","o","f","-","p","o","c","k","e","t">>, pat |-> [k |-> "alt", rs |-> <<[k |-> "cat", rs |-> <<[k |-> "lit", s |-> <<"o","u","t">>], [k |-> "opt", r |-> [k |-> "set", cs |-> {"-"} \cup {" "}]], [k |-> "lit", s |-> <<"o","f">>], [k |-> "opt", r |-> [k |-> "set", cs |-> {"-"} \cup {" "}]], [k |-> "lit", s |-> <<"p","o","c","k","e","t">>]>>], [k |-> "lit", s |-> <<"p","e","r","s","o","n","a","l"," ","s","a","v","i","n","g">>], [k |-> "lit", s |-> <<"f","a","m","i","l","y">>], [k |-> "lit", s |-> <<"c","a","r","e","g","i","v","e","r">>], [k |-> "lit", s |-> <<"i","n","c","o","m","e">>]>>]],
    [name |-> <<"N","o","t"," ","r","e","p","o","r","t","e","d">>, pat |-> [k |-> "cat", rs |-> <<[k |-> "lit", s |-> <<"n","o">>], [k |-> "alt", rs |-> <<[k |-> "lit", s |-> <<"t"," ","a","p","p","l","i","c","a","b","l","e">>], [k |-> "lit", s |-> <<"t"," ","r","e","p","o","r","t","e","d">>], [k |-> "lit", s |-> <<" ","d","a","t","a">>], [k |-> "lit", s |-> <<"t"," ","a","v","a","i","l","a","b","l","e">>]>>]>>]],
    [name |-> <<"C","a","t","a","s","t","r","o","p","h","i","c"," ","e","x","p","e","n","d","i","t","u","r","e","s">>, pat |-> [k |-> "lit", s |-> <<"c","a","t","a","s","t","r","o","p","h","i","c">>]],
    [name |-> <<"L","O","S","/","b","e","d","-","d","a","y"," ","b","u","r","d","e","n">>, pat |-> [k |-> "alt", rs |-> <<[k |-> "lit", s |-> <<"l","e","n","g","t","h"," ","o","f"," ","s","t","a","y">>], [k |-> "cat", rs |-> <<[k |-> "lit", s |-> <<"b","e","d">>], [k |-> "opt", r |-> [k |-> "set", cs |-> {"-"} \cup {" "}]], [k |-> "lit", s |-> <<"d","a","y">>]>>]>>]] >>

\* The loop of tag_by_patterns over patterns.items(), from the n-th item on
RECURSIVE TagLoop(_, _, _, _)
TagLoop(txt, patterns, n, tags) ==
    IF n > Len(patterns) THEN tags
    ELSE TagLoop(txt, patterns, n + 1,
                 IF Search(patterns[n].pat, txt)
                 THEN Append(tags, patterns[n].name) ELSE tags)

RECURSIVE TagLoop_FirstMatch(_, _, _, _)
TagLoop_FirstMatch(txt, patterns, n, tags) ==
    IF n > Len(patterns) THEN tags
    ELSE IF Search(patterns[n].pat, txt) THEN Append(tags, patterns[n].name)
    ELSE TagLoop_FirstMatch(txt, patterns, n + 1, tags)

tag_by_patterns_FirstMatch(text, patterns) ==
    Join(TagLoop_FirstMatch(tolower(text), patterns, 1, <<>>), <<";"," ">>)

tag_by_patterns(text, patterns) ==
    LET tags == TagLoop(tolower(text), patterns, 1, <<>>)
    IN  IF tags # <<>> THEN Join(tags, <<";"," ">>) ELSE EmptyStr

\* main's econ_combined of the two economic cells
econ_combined(direct, indirect) == tolower(direct) \o <<" ">> \o tolower(indirect)

----------------------------------------------------------------------------
(* Derivable fields utilities: years and dates                              *)

\* MONTHS.get(tok): the month's number, 0 for None
MonthNames == << <<"j","a","n","u","a","r","y">>, <<"f","e","b","r","u","a","r","y">>, <<"m","a","r","c","h">>, <<"a","p","r","i","l">>, <<"m","a","y">>, <<"j","u","n","e">>,
                 <<"j","u","l","y">>, <<"a","u","g","u","s","t">>, <<"s","e","p","t","e","m","b","e","r">>, <<"o","c","t","o","b","e","r">>, <<"n","o","v","e","m","b","e","r">>, <<"d","e","c","e","m","b","e","r">> >>

month_to_num(tok) ==
    LET t == Strip(tolower(tok))
    IN  IF \E n \in 1..12 : MonthNames[n] = t
        THEN CHOOSE n \in 1..12 : MonthNames[n] = t
        ELSE 0

\* The end of the longest run of characters of cs that starts at position i
RECURSIVE RunEnd(_, _, _)
RunEnd(s, cs, i) == IF i <= Len(s) /\ s[i] \in cs THEN RunEnd(s, cs, i + 1) ELSE i

Min(a, b) == IF a < b THEN a ELSE b

\* One match of  \b(?:19|20)\d{2}\b  starting at position i: its end, or 0
YearEnd(s, i) ==
    IF /\ i + 3 <= Len(s)
       /\ IsWordAt(s, i - 1) # IsWordAt(s, i)
       /\ (StartsAt(s, <<"1","9">>, i) \/ StartsAt(s, <<"2","0">>, i))
       /\ s[i + 2] \in Digits /\ s[i + 3] \in Digits
       /\ IsWordAt(s, i + 3) # IsWordAt(s, i + 4)
    THEN i + 4 ELSE 0

\* re.findall(r"\b(?:19|20)\d{2}\b", s): leftmost matches, not overlapping
RECURSIVE FindYears(_, _)
FindYears(s, i) ==
    IF i > Len(s) THEN <<>>
    ELSE IF YearEnd(s, i) # 0 THEN <<SubSeq(s, i, i + 3)>> \o FindYears(s, i + 4)
    ELSE FindYears(s, i + 1)

parse_years(period) ==
    LET years == FindYears(tolower(period), 1)
    IN  [ys |-> IF years # <<>> THEN years[1] ELSE EmptyStr,
         ye |-> IF years # <<>> THEN years[Len(years)] ELSE EmptyStr]

\* One match of  (\d{1,2})?\s*([a-z]+)\s*(\d{4})  starting at position i.
\* The greedy choices are forced: a day of one digit before a second digit,
\* a shorter run of spaces or of letters, or no day before a digit, all leave
\* a character the next item cannot take.  The groups and the end; end = 0
\* for no match.
DateTokenAt(s, i) ==
    LET d  == Min(RunEnd(s, Digits, i), i + 2)
        w1 == RunEnd(s, Whitespace, d)
        a  == RunEnd(s, LowerLetters, w1)
        w2 == RunEnd(s, Whitespace, a)
        y  == RunEnd(s, Digits, w2)
    IN  IF a > w1 /\ y >= w2 + 4
        THEN [day |-> SubSeq(s, i, d - 1), month |-> SubSeq(s, w1, a - 1),
              year |-> SubSeq(s, w2, w2 + 3), end |-> w2 + 4]
        ELSE [day |-> EmptyStr, month |-> EmptyStr, year |-> EmptyStr, end |-> 0]

\* re.findall of that pattern: leftmost matches, not overlapping
RECURSIVE FindDateTokens(_, _)
FindDateTokens(s, i) ==
    IF i > Len(s) THEN <<>>
    ELSE LET t == DateTokenAt(s, i)
         IN  IF t.end # 0 THEN <<t>> \o FindDateTokens(s, t.end)
             ELSE FindDateTokens(s, i + 1)

\* f"{y}-{m:02d}-{int(day):02d}"
FormatDate(y, m, day) == y \o <<"-">> \o Fmt02d(m) \o <<"-">> \o Fmt02d(ParseInt(day))

parse_period_dates(period) ==
    LET s == tolower(period)
        m == FindDateTokens(s, 1)
        d1 == m[1]
        d2 == m[Len(m)]
        m1 == IF month_to_num(d1.month) # 0 THEN month_to_num(d1.month) ELSE 1
        m2 == IF month_to_num(d2.month) # 0 THEN month_to_num(d2.month) ELSE 12
        ys == parse_years(period).ys
        ye == parse_years(period).ye
    IN  [start |-> IF Len(m) >= 1
                   THEN FormatDate(d1.year, m1, IF d1.day # EmptyStr THEN d1.day ELSE <<"0","1">>)
                   ELSE IF ys # EmptyStr THEN ys \o <<"-","0","1","-","0","1">> ELSE EmptyStr,
         end   |-> IF Len(m) >= 2
                   THEN FormatDate(d2.year, m2, IF d2.day # EmptyStr THEN d2.day ELSE <<"2","8">>)
                   ELSE IF ye # EmptyStr THEN ye \o <<"-","1","2","-","3","1">> ELSE EmptyStr]

----------------------------------------------------------------------------
(* Derivable fields utilities: numbers, flags, lists, standardization       *)

\* The first position from i on whose character is in cs; 0 if none
RECURSIVE FirstIn(_, _, _)
FirstIn(s, cs, i) ==
    IF i > Len(s) THEN 0 ELSE IF s[i] \in cs THEN i ELSE FirstIn(s, cs, i + 1)

\* s without the characters of cs
Without(s, cs) == SelectSeq(s, LAMBDA c : c \notin cs)

\* re.search(r"\d[\d,]*", x), then str(int(group.replace(',', '')))
parse_int_safe(x) ==
    IF ~Truthy(x) THEN EmptyStr
    ELSE LET i == FirstIn(x, Digits, 1)
         IN  IF i = 0 THEN EmptyStr
             ELSE IntToStr(ParseInt(Without(
                     SubSeq(x, i, RunEnd(x, Digits \cup {","}, i) - 1), {","})))

\* re.search(r"\d+\.?\d*", x).group(0)
parse_percent_safe(x) ==
    IF ~Truthy(x) THEN EmptyStr
    ELSE LET i == FirstIn(x, Digits, 1)
             e1 == RunEnd(x, Digits, i)
             e2 == IF e1 <= Len(x) /\ x[e1] = "." THEN e1 + 1 ELSE e1
         IN  IF i = 0 THEN EmptyStr ELSE SubSeq(x, i, RunEnd(x, Digits, e2) - 1)

Yes == <<"y","e","s">>
No == <<"n","o">>
Unclear == <<"u","n","c","l","e","a","r">>

yes_no_unclear(condition, known) ==
    IF ~known THEN Unclear ELSE IF condition THEN Yes ELSE No

\* The end of a match of  ,|;|/|\band\b  at position i; 0 if none
SeparatorEnd(s, i) ==
    IF i <= Len(s) /\ s[i] \in {",", ";", "/"} THEN i + 1
    ELSE IF /\ StartsAt(s, <<"a","n","d">>, i)
            /\ IsWordAt(s, i - 1) # IsWordAt(s, i)
            /\ IsWordAt(s, i + 2) # IsWordAt(s, i + 3)
         THEN i + 3
    ELSE 0

\* re.split(r",|;|/|\band\b", s)
RECURSIVE SplitCountries(_, _, _)
SplitCountries(s, i, cur) ==
    IF i > Len(s) THEN <<cur>>
    ELSE IF SeparatorEnd(s, i) # 0
         THEN <<cur>> \o SplitCountries(s, SeparatorEnd(s, i), EmptyStr)
    ELSE SplitCountries(s, i + 1, Append(cur, s[i]))

MapSeq(f(_), xs) == [n \in 1..Len(xs) |-> f(xs[n])]

CountryAlias(part) ==
    IF Lower(part) \in {<<"d","e","m","o","c","r","a","t","i","c"," ","r","e","p","u","b","l","i","c"," ","o","f"," ","c","o","n","g","o">>, <<"d","r","c">>}
    THEN <<"D","e","m","o","c","r","a","t","i","c"," ","R","e","p","u","b","l","i","c"," ","o","f"," ","t","h","e"," ","C","o","n","g","o">>
    ELSE part

country_standardize(s) ==
    IF ~Truthy(s) THEN <<>>
    ELSE MapSeq(CountryAlias,
                SelectSeq(MapSeq(Strip, SplitCountries(s, 1, EmptyStr)),
                          LAMBDA part : part # EmptyStr))

facility_level_guess(setting) ==
    LET s == tolower(setting)
    IN  IF Contains(s, <<"t","e","r","t","i","a","r","y">>) \/ Contains(s, <<"r","e","f","e","r","r","a","l">>) \/ Contains(s, <<"t","e","a","c","h","i","n","g">>)
        THEN <<"t","e","r","t","i","a","r","y","/","r","e","f","e","r","r","a","l","/","t","e","a","c","h","i","n","g">>
        ELSE IF Contains(s, <<"d","i","s","t","r","i","c","t">>) THEN <<"d","i","s","t","r","i","c","t">>
        ELSE IF Contains(s, <<"p","r","i","v","a","t","e">>) THEN <<"p","r","i","v","a","t","e">>
        ELSE IF Contains(s, <<"r","e","g","i","o","n","a","l">>) THEN <<"r","e","g","i","o","n","a","l">>
        ELSE <<"u","n","s","p","e","c","i","f","i","e","d">>

\* The printable ASCII characters in code-point order (less the quote, the
\* backslash and the backquote, which no label holds), for sorted()
Ascii == <<" ","!","#","$","%","&","'","(",")","*","+",",","-",".","/","0","1","2","3","4","5","6","7","8","9",":",";","<","=",">","?","@","A","B","C","D","E","F","G","H","I","J","K","L","M","N","O","P","Q","R","S","T","U","V","W","X","Y","Z","[","]","^","_","a","b","c","d","e","f","g","h","i","j","k","l","m","n","o","p","q","r","s","t","u","v","w","x","y","z","{","|","}","~">>
CodePoint(c) == CHOOSE n \in 1..Len(Ascii) : Ascii[n] = c

\* a < b as Python compares str
RECURSIVE StrLess(_, _)
StrLess(a, b) ==
    IF b = <<>> THEN FALSE
    ELSE IF a = <<>> THEN TRUE
    ELSE IF a[1] = b[1] THEN StrLess(Tail(a), Tail(b))
    ELSE CodePoint(a[1]) < CodePoint(b[1])

\* sorted(S) of a set of str
RECURSIVE Sorted(_)
Sorted(S) ==
    IF S = {} THEN <<>>
    ELSE LET least == CHOOSE x \in S : \A y \in S \ {x} : StrLess(x, y)
         IN  <<least>> \o Sorted(S \ {least})

SeqRange(xs) == {xs[n] : n \in 1..Len(xs)}

\* What a call gives when it raises instead of returning
AttributeError == <<"<AttributeError>">>

\* cats after the keyword checks of map_specialities
SpecialityCats(s0) ==
    (IF Contains(s0, <<"o","b","s","t">>) \/ Contains(s0, <<"g","y","n">>) THEN <<<<"O","B","G","Y","N">>>> ELSE <<>>)
    \o (IF Contains(s0, <<"g","e","n","e","r","a","l">>) THEN <<<<"G","e","n","e","r","a","l"," ","S","u","r","g","e","r","y">>>> ELSE <<>>)
    \o (IF Contains(s0, <<"o","r","t","h","o","p">>) \/ Contains(s0, <<"t","r","a","u","m","a">>) THEN <<<<"O","r","t","h","o","p","e","d","i","c","s","/","T","r","a","u","m","a">>>> ELSE <<>>)
    \o (IF Contains(s0, <<"p","e","d","i","a","t","r">>) \/ Contains(s0, <<"p","a","e","d","i","a","t","r">>) THEN <<<<"P","e","d","i","a","t","r","i","c","s">>>> ELSE <<>>)
    \o (IF Contains(s0, <<"u","r","o","l","o","g">>) THEN <<<<"U","r","o","l","o","g","y">>>> ELSE <<>>)
    \o (IF Contains(s0, <<"h","e","a","d"," ","a","n","d"," ","n","e","c","k">>) \/ Contains(s0, <<"h","e","a","d"," ","&"," ","n","e","c","k">>) THEN <<<<"H","e","a","d"," ","&"," ","N","e","c","k">>>> ELSE <<>>)

\* s.strip() is evaluated only when no keyword matched; None has no strip
map_specialities(s) ==
    LET keyword == SpecialityCats(tolower(s))
    IN  IF keyword = <<>> /\ s = NoneVal THEN AttributeError
        ELSE LET cats == IF keyword = <<>> /\ Strip(s) # EmptyStr
                         THEN <<<<"O","t","h","e","r">>>> ELSE keyword
             IN  IF cats # <<>> THEN Join(Sorted(SeqRange(cats)), <<";"," ">>) ELSE EmptyStr

map_procedures(s) ==
    LET s0 == tolower(s)
        tags ==
            (IF Contains(s0, <<"c","e","s","a","r","e","a","n">>) \/ Contains(s0, <<"c","a","e","s","a","r","e","a","n">>) \/ Contains(s0, <<"c","-","s","e","c","t","i","o","n">>)
             THEN <<<<"C","e","s","a","r","e","a","n"," ","s","e","c","t","i","o","n">>>> ELSE <<>>)
            \o (IF Contains(s0, <<"l","a","p","a","r","o","t","o","m","y">>) THEN <<<<"L","a","p","a","r","o","t","o","m","y">>>> ELSE <<>>)
            \o (IF Contains(s0, <<"d","e","b","r","i","d","e","m","e","n","t">>) THEN <<<<"D","e","b","r","i","d","e","m","e","n","t">>>> ELSE <<>>)
            \o (IF Contains(s0, <<"o","r","i","f">>) \/ Contains(s0, <<"o","p","e","n"," ","r","e","d","u","c","t","i","o","n">>) THEN <<<<"O","R","I","F">>>> ELSE <<>>)
            \o (IF Contains(s0, <<"a","m","p","u","t","a","t","i","o","n">>) THEN <<<<"A","m","p","u","t","a","t","i","o","n">>>> ELSE <<>>)
            \o (IF Contains(s0, <<"h","e","r","n","i","a">>) THEN <<<<"H","e","r","n","i","a"," ","r","e","p","a","i","r">>>> ELSE <<>>)
            \o (IF Contains(s0, <<"a","p","p","e","n","d","e","c","t">>) THEN <<<<"A","p","p","e","n","d","e","c","t","o","m","y">>>> ELSE <<>>)
    IN  IF tags # <<>> THEN Join(Sorted(SeqRange(tags)), <<";"," ">>) ELSE EmptyStr

pathogen_std(name) ==
    LET s0 == tolower(name)
        s == Replace(Replace(s0, <<"c","o","a","g","u","l","a","s","e"," ","n","e","g","a","t","i","v","e"," ","s","t","a","p","h","y","l","o","c","o","c","c","i">>, <<"c","o","n","s">>),
                     <<"c","o","a","g","u","l","a","s","e","-","n","e","g","a","t","i","v","e"," ","s","t","a","p","h","y","l","o","c","o","c","c","i">>, <<"c","o","n","s">>)
    IN  IF s0 = EmptyStr THEN EmptyStr
        ELSE IF Contains(s, <<"s","c","i","u","r","i">>) THEN <<"M","a","m","m","a","l","i","i","c","o","c","c","u","s"," ","s","c","i","u","r","i">>
        ELSE IF Contains(s, <<"c","o","n","s">>) \/ Contains(s, <<"c","o","a","g","u","l","a","s","e">>) THEN <<"C","o","N","S">>
        ELSE IF Contains(s, <<"s","."," ","a","u","r","e","u","s">>) \/ Contains(s, <<"s","t","a","p","h","y","l","o","c","o","c","c","u","s"," ","a","u","r","e","u","s">>)
             THEN <<"S","t","a","p","h","y","l","o","c","o","c","c","u","s"," ","a","u","r","e","u","s">>
        ELSE IF Contains(s, <<"k","l","e","b","s","i","e","l","l","a">>)
             THEN (IF Contains(s, <<"p","n","e","u","m","o","n">>) THEN <<"K","l","e","b","s","i","e","l","l","a"," ","p","n","e","u","m","o","n","i","a","e">> ELSE <<"K","l","e","b","s","i","e","l","l","a"," ","s","p","p",".">>)
        ELSE IF Contains(s, <<"e","."," ","c","o","l","i">>) \/ Contains(s, <<"e","s","c","h","e","r","i","c","h","i","a"," ","c","o","l","i">>) THEN <<"E","s","c","h","e","r","i","c","h","i","a"," ","c","o","l","i">>
        ELSE IF Contains(s, <<"p","s","e","u","d","o","m","o","n","a","s">>) THEN <<"P","s","e","u","d","o","m","o","n","a","s"," ","a","e","r","u","g","i","n","o","s","a">>
        ELSE IF Contains(s, <<"a","c","i","n","e","t","o","b","a","c","t","e","r">>)
             THEN (IF Contains(s, <<"b","a","u","m","a","n","n","i","i">>) THEN <<"A","c","i","n","e","t","o","b","a","c","t","e","r"," ","b","a","u","m","a","n","n","i","i">> ELSE <<"A","c","i","n","e","t","o","b","a","c","t","e","r"," ","s","p","p",".">>)
        ELSE IF Contains(s, <<"e","n","t","e","r","o","c","o","c","c","u","s">>) THEN <<"E","n","t","e","r","o","c","o","c","c","u","s"," ","s","p","p",".">>
        ELSE IF Contains(s, <<"p","r","o","t","e","u","s">>) THEN <<"P","r","o","t","e","u","s"," ","s","p","p",".">>
        ELSE IF Contains(s, <<"c","i","t","r","o","b","a","c","t","e","r">>) THEN <<"C","i","t","r","o","b","a","c","t","e","r"," ","s","p","p",".">>
        ELSE IF Contains(s, <<"e","n","t","e","r","o","b","a","c","t","e","r">>) THEN <<"E","n","t","e","r","o","b","a","c","t","e","r"," ","s","p","p",".">>
        ELSE Strip(name)

\* has_value of audit_coverage.py
NoDataSentinels == {<<"n","o","t"," ","a","p","p","l","i","c","a","b","l","e">>, <<"n","a">>, <<"n","/","a">>, <<"n","o","t"," ","a","v","a","i","l","a","b","l","e">>, <<"n","o","t"," ","r","e","p","o","r","t","e","d">>}

has_value(v) ==
    /\ Truthy(v)
    /\ Strip(v) # EmptyStr
    /\ Lower(Strip(v)) \notin NoDataSentinels

----------------------------------------------------------------------------
(* Column names                                                             *)

ColAuthor == <<"A","u","t","h","o","r">>
ColYear == <<"Y","e","a","r"," ","o","f"," ","p","u","b","l","i","c","a","t","i","o","n">>
ColTitle == <<"T","i","t","l","e"," ","o","f"," ","p","a","p","e","r">>
ColCountry == <<"C","o","u","n","t","r","y","/","C","o","u","n","t","r","i","e","s">>
ColStudyDesign == <<"S","t","u","d","y"," ","D","e","s","i","g","n">>
ColStudyPeriod == <<"S","t","u","d","y"," ","P","e","r","i","o","d">>
ColSetting == <<"S","e","t","t","i","n","g">>
ColPopulation == <<"P","o","p","u","l","a","t","i","o","n"," ","D","e","s","c","r","i","p","t","i","o","n">>
ColSpeciality == <<"S","u","r","g","i","c","a","l"," ","S","p","e","c","i","a","l","i","t","y">>
ColProcedures == <<"S","p","e","c","i","f","i","c"," ","P","r","o","c","e","d","u","r","e","s">>
ColSampleN == <<"T","o","t","a","l"," ","S","a","m","p","l","e"," ","S","i","z","e"," ","(","N",")">>
ColTotalProcedures == <<"T","o","t","a","l"," ","P","r","o","c","e","d","u","r","e","s">>
ColTotalSSIs == <<"T","o","t","a","l"," ","S","S","I","s">>
ColTotalIsolates == <<"T","o","t","a","l"," ","S","S","I"," ","I","s","o","l","a","t","e","s">>
ColSexFemale == <<"S","e","x"," ","(","%","F","e","m","a","l","e",")">>
ColAdherence == <<"A","d","h","e","r","e","n","c","e"," ","t","o"," ","G","u","i","d","e","l","i","n","e","s"," ","(","%",")">>
ColIncidence == <<"S","S","I"," ","I","n","c","i","d","e","n","c","e"," ","R","a","t","e">>
ColMethod == <<"M","e","t","h","o","d"," ","o","f"," ","S","S","I"," ","D","i","a","g","n","o","s","i","s">>
ColPathogen1 == <<"P","a","t","h","o","g","e","n"," ","1"," ","N","a","m","e"," ","(","N","a","m","e"," ","o","f"," ","t","h","e"," ","m","o","s","t"," ","c","o","m","m","o","n"," ","i","s","o","l","a","t","e","d"," ","p","a","t","h","o","g","e","n",")">>
ColPathogen2 == <<"P","a","t","h","o","g","e","n"," ","2"," ","N","a","m","e"," ","(","N","a","m","e"," ","o","f"," ","t","h","e"," ","2","n","d"," ","m","o","s","t"," ","c","o","m","m","o","n"," ","p","a","t","h","o","g","e","n",")">>
ColPathogen3 == <<"P","a","t","h","o","g","e","n"," ","3"," ","N","a","m","e"," ","(","N","a","m","e"," ","o","f"," ","t","h","e"," ","3","r","d"," ","m","o","s","t"," ","c","o","m","m","o","n"," ","i","s","o","l","a","t","e","d"," ","p","a","t","h","o","g","e","n",")">>
ColDrivers == <<"R","e","p","o","r","t","e","d"," ","D","r","i","v","e","r","s"," ","o","f"," ","A","M","R">>
ColInterventions == <<"I","n","t","e","r","v","e","n","t","i","o","n","s","/","I","n","n","o","v","a","t","i","o","n","s"," ","D","e","s","c","r","i","b","e","d">>
ColGaps == <<"G","a","p","s"," ","I","d","e","n","t","i","f","i","e","d"," ","b","y"," ","A","u","t","h","o","r","s">>
ColPolicy == <<"P","o","l","i","c","y"," ","R","e","s","p","o","n","s","e","/","C","a","p","a","c","i","t","y">>
econ_dir_col == <<"E","c","o","n","o","m","i","c"," ","-"," ","d","i","r","e","c","t"," ","c","o","s","t","s">>
econ_ind_col == <<"E","c","o","n","o","m","i","c"," ","-"," ","i","n","d","i","r","e","c","t"," ","c","o","s","t","s">>
ColMortalityAttr == <<"M","o","r","t","a","l","i","t","y"," ","-"," ","S","S","I"," ","a","t","t","r","i","b","u","t","a","b","l","e"," ","r","a","t","e"," ","(","%",")">>
ColMortality30 == <<"M","o","r","t","a","l","i","t","y"," ","-"," ","3","0","-","d","a","y"," ","p","o","s","t","-","o","p">>
ColMortality90 == <<"M","o","r","t","a","l","i","t","y"," ","-"," ","9","0","-","d","a","y"," ","p","o","s","t","-","o","p"," ","(","%",")">>
ColReadmission == <<"M","o","r","b","i","d","i","t","y"," ","-"," ","R","e","a","d","m","i","s","s","i","o","n"," ","r","a","t","e"," ","(","%",")">>
ColReoperation == <<"M","o","r","b","i","d","i","t","y"," ","-"," ","R","e","-","o","p","e","r","t","a","t","i","o","n"," ","r","a","t","e"," ","(","%",")">>
ColTotalLOS == <<"H","o","s","p","i","t","a","l"," ","b","u","r","d","e","n"," ","-"," ","T","o","t","a","l"," ","l","e","n","g","t","h"," ","o","f"," ","s","t","a","y"," ","(","d","a","y","s",")">>
ColAdditionalLOS == <<"M","o","r","b","i","d","i","t","y"," ","-"," ","A","d","d","i","t","i","o","n","a","l"," ","H","o","s","p","i","t","a","l"," ","S","t","a","y"," ","(","d","a","y","s",")">>

key_cols_TitleUnchecked == <<ColAuthor, ColYear, ColYear>>

key_cols == <<ColAuthor, ColYear, ColTitle>>

\* The derived columns, in the order of new_fields
new_fields == <<
    <<"S","t","u","d","y"," ","D","e","s","i","g","n"," ","(","M","E","C","E",")">>, <<"D","r","i","v","e","r","s","_","A","M","R","_","T","h","e","m","e","s">>, <<"I","n","t","e","r","v","e","n","t","i","o","n","s","_","T","h","e","m","e","s">>,
    <<"G","a","p","s","_","T","h","e","m","e","s">>, <<"P","o","l","i","c","y","_","C","a","p","a","c","i","t","y","_","T","h","e","m","e","s">>, <<"E","c","o","n","o","m","i","c","_","C","o","s","t","s","_","T","h","e","m","e","s">>,
    <<"y","e","a","r","_","s","t","a","r","t">>, <<"y","e","a","r","_","e","n","d">>, <<"p","e","r","i","o","d","_","s","t","a","r","t","_","d","a","t","e">>, <<"p","e","r","i","o","d","_","e","n","d","_","d","a","t","e">>,
    <<"t","o","t","a","l","_","s","a","m","p","l","e","_","n","_","p","a","r","s","e","d">>, <<"t","o","t","a","l","_","p","r","o","c","e","d","u","r","e","s","_","n","_","p","a","r","s","e","d">>, <<"t","o","t","a","l","_","s","s","i","s","_","n","_","p","a","r","s","e","d">>,
    <<"t","o","t","a","l","_","s","s","i","_","i","s","o","l","a","t","e","s","_","n","_","p","a","r","s","e","d">>,
    <<"s","e","x","_","f","e","m","a","l","e","_","p","c","t","_","p","a","r","s","e","d">>, <<"a","d","h","e","r","e","n","c","e","_","g","u","i","d","e","l","i","n","e","s","_","p","c","t","_","p","a","r","s","e","d">>, <<"s","s","i","_","i","n","c","i","d","e","n","c","e","_","p","c","t","_","p","a","r","s","e","d">>,
    <<"d","i","a","g","n","o","s","i","s","_","c","d","c","_","g","u","i","d","e","l","i","n","e","s">>, <<"l","a","b","_","c","u","l","t","u","r","e","_","c","o","n","f","i","r","m","e","d">>, <<"f","o","l","l","o","w","u","p","_","3","0","d">>, <<"s","s","i","_","d","e","n","o","m","i","n","a","t","o","r","_","t","y","p","e">>,
    <<"c","o","u","n","t","r","y","_","l","i","s","t">>, <<"f","a","c","i","l","i","t","y","_","l","e","v","e","l","_","g","u","e","s","s">>, <<"s","p","e","c","i","a","l","i","t","y","_","s","e","t">>, <<"p","r","o","c","e","d","u","r","e","_","g","r","o","u","p">>,
    <<"p","a","t","h","o","g","e","n","1","_","s","t","d">>, <<"p","a","t","h","o","g","e","n","2","_","s","t","d">>, <<"p","a","t","h","o","g","e","n","3","_","s","t","d">>,
    <<"h","a","s","_","m","o","r","t","a","l","i","t","y","_","d","a","t","a">>, <<"h","a","s","_","r","e","a","d","m","i","s","s","i","o","n","_","d","a","t","a">>, <<"h","a","s","_","r","e","o","p","e","r","a","t","i","o","n","_","d","a","t","a">>, <<"h","a","s","_","l","o","s","_","d","a","t","a">>,
    <<"h","a","s","_","e","c","o","n","o","m","i","c","_","c","o","s","t","s">> >>

ColDesignMECE == <<"S","t","u","d","y"," ","D","e","s","i","g","n"," ","(","M","E","C","E",")">>
ColProceduresParsed == <<"t","o","t","a","l","_","p","r","o","c","e","d","u","r","e","s","_","n","_","p","a","r","s","e","d">>
ColSSIsParsed == <<"t","o","t","a","l","_","s","s","i","s","_","n","_","p","a","r","s","e","d">>
ColIncidenceParsed == <<"s","s","i","_","i","n","c","i","d","e","n","c","e","_","p","c","t","_","p","a","r","s","e","d">>
ColHasMortality == <<"h","a","s","_","m","o","r","t","a","l","i","t","y","_","d","a","t","a">>
ColHasReadmission == <<"h","a","s","_","r","e","a","d","m","i","s","s","i","o","n","_","d","a","t","a">>
ColHasReoperation == <<"h","a","s","_","r","e","o","p","e","r","a","t","i","o","n","_","d","a","t","a">>
ColHasLOS == <<"h","a","s","_","l","o","s","_","d","a","t","a">>
ColHasEconomic == <<"h","a","s","_","e","c","o","n","o","m","i","c","_","c","o","s","t","s">>

flag_cols == <<ColHasMortality, ColHasReadmission, ColHasReoperation, ColHasLOS, ColHasEconomic>>

shortlist_cols == <<
    ColAuthor, ColYear, ColTitle, ColCountry, ColStudyDesign, ColDesignMECE,
    ColProceduresParsed, ColSSIsParsed, ColIncidenceParsed,
    ColHasMortality, ColHasReadmission, ColHasReoperation, ColHasLOS, ColHasEconomic,
    ColMethod, econ_dir_col, econ_ind_col >>

OUT_PATH == "data/raw_data/data_extraction_amr_ssi_ecsa_cleaned_mece.csv"
OUT_ENRICHED == "data/processed_data/data_extraction_amr_ssi_ecsa_enriched.csv"
OUT_REEXTRACT == "data/processed_data/reextraction_targets.csv"
OutPaths == {OUT_PATH, OUT_ENRICHED, OUT_REEXTRACT}

----------------------------------------------------------------------------
(* dict: the keys in insertion order, and the value of each                 *)

EmptyDict == [ks |-> <<>>, v |-> <<>>]

HasKey(d, k) == \E n \in 1..Len(d.ks) : d.ks[n] = k

\* d.get(k, default)
DictGet(d, k, default) == IF HasKey(d, k) THEN d.v[CHOOSE n \in 1..Len(d.ks) : d.ks[n] = k] ELSE default

\* d[k] = x: a new key goes last, a present key keeps its place
DictSet(d, k, x) ==
    IF HasKey(d, k)
    THEN [ks |-> d.ks, v |-> [n \in 1..Len(d.ks) |-> IF d.ks[n] = k THEN x ELSE d.v[n]]]
    ELSE [ks |-> Append(d.ks, k), v |-> Append(d.v, x)]

\* d after d[k] = x for each <<k, x>> of pairs, in order
RECURSIVE DictSetAll(_, _)
DictSetAll(d, pairs) ==
    IF pairs = <<>> THEN d
    ELSE DictSetAll(DictSet(d, pairs[1][1], pairs[1][2]), Tail(pairs))

----------------------------------------------------------------------------
(* read_csv and write_csv                                                   *)

\* repr of a list of str without quotes or backslashes: ['a', 'b']
ReprList(xs) == <<"[">> \o Join([n \in 1..Len(xs) |-> <<"'">> \o xs[n] \o <<"'">>], <<","," ">>) \o <<"]">>

\* A list value (DictReader's restkey cells), kept as the text str() gives
ListVal(xs) == <<"<list>">> \o ReprList(xs)
IsList(v) == v # <<>> /\ v[1] = "<list>"

\* k.strip() if k else ''
NormKey(k) == IF k = NoneVal \/ k = EmptyStr THEN EmptyStr ELSE Strip(k)

\* The dict csv.DictReader makes of one line: zip(fieldnames, row), then the
\* surplus cells under the key None, or None under the fieldnames left over
ReaderPairs(names, row) ==
    [n \in 1..Min(Len(names), Len(row)) |-> <<names[n], row[n]>>]
    \o (IF Len(row) > Len(names)
        THEN << <<NoneVal, ListVal(SubSeq(row, Len(names) + 1, Len(row)))>> >>
        ELSE [n \in 1..(Len(names) - Len(row)) |-> <<names[Len(row) + n], NoneVal>>])

ReadRow(names, row) ==
    LET d == DictSetAll(EmptyDict, ReaderPairs(names, row))
    IN  DictSetAll(EmptyDict, [n \in 1..Len(d.ks) |-> <<NormKey(d.ks[n]), d.v[n]>>])

\* An empty file has no fieldnames; DictReader skips the lines without cells
read_csv(hdr, lines) ==
    IF hdr = <<>> THEN <<>>
    ELSE LET names == MapSeq(NormKey, hdr)
             cells == SelectSeq(lines, LAMBDA row : row # <<>>)
         IN  [n \in 1..Len(cells) |-> ReadRow(names, cells[n])]

\* What csv.DictWriter writes for a value: '' for None, str() of the others
CsvText(v) == IF v = NoneVal THEN EmptyStr ELSE IF IsList(v) THEN Tail(v) ELSE v

NoFile == [exists |-> FALSE, header |-> <<>>, rows |-> <<>>]

\* The file write_csv leaves at a path
write_csv(recs, names) ==
    [exists |-> TRUE,
     header |-> names,
     rows |-> [n \in 1..Len(recs) |->
                 [c \in 1..Len(names) |-> CsvText(DictGet(recs[n], names[c], EmptyStr))]]]

----------------------------------------------------------------------------
(* main(): the steps a record goes through                                  *)

\* f"{v}" of a cell
FormatCell(v) == IF v = NoneVal THEN <<"N","o","n","e">> ELSE v

\* The text main() looks a record's identity up by
DedupKey(r) ==
    FormatCell(DictGet(r, key_cols[1], EmptyStr)) \o <<"|","|">>
        \o FormatCell(DictGet(r, key_cols[2], EmptyStr)) \o <<"|","|">>
        \o FormatCell(DictGet(r, key_cols[3], EmptyStr))

\* The loop over rows from the n-th on: the indices of the records kept
RECURSIVE DedupLoop(_, _, _, _)
DedupLoop(rs, n, seen, kept) ==
    IF n > Len(rs) THEN kept
    ELSE IF DedupKey(rs[n]) \notin seen
         THEN DedupLoop(rs, n + 1, seen \cup {DedupKey(rs[n])}, Append(kept, n))
    ELSE DedupLoop(rs, n + 1, seen, kept)

\* r['Study Design (MECE)'] = normalize_design(r.get('Study Design', ''))
WithDesign(r) == DictSet(r, ColDesignMECE, normalize_design(DictGet(r, ColStudyDesign, EmptyStr)))

\* The five theme fields of a record
WithThemes(r) ==
    DictSetAll(r, <<
        <<<<"D","r","i","v","e","r","s","_","A","M","R","_","T","h","e","m","e","s">>, tag_by_patterns(DictGet(r, ColDrivers, EmptyStr), drivers_patterns)>>,
        <<<<"I","n","t","e","r","v","e","n","t","i","o","n","s","_","T","h","e","m","e","s">>, tag_by_patterns(DictGet(r, ColInterventions, EmptyStr), interv_patterns)>>,
        <<<<"G","a","p","s","_","T","h","e","m","e","s">>, tag_by_patterns(DictGet(r, ColGaps, EmptyStr), gaps_patterns)>>,
        <<<<"P","o","l","i","c","y","_","C","a","p","a","c","i","t","y","_","T","h","e","m","e","s">>, tag_by_patterns(DictGet(r, ColPolicy, EmptyStr), policy_patterns)>>,
        <<<<"E","c","o","n","o","m","i","c","_","C","o","s","t","s","_","T","h","e","m","e","s">>,
          tag_by_patterns(econ_combined(DictGet(r, econ_dir_col, EmptyStr),
                                        DictGet(r, econ_ind_col, EmptyStr)), econ_patterns)>> >>)

ReFollowup30 == [k |-> "alt", rs |-> <<[k |-> "cat", rs |-> <<[k |-> "lit", s |-> <<"3","0">>], [k |-> "opt", r |-> [k |-> "set", cs |-> {"-"} \cup {" "}]], [k |-> "lit", s |-> <<"d","a","y">>]>>], [k |-> "cat", rs |-> <<[k |-> "lit", s |-> <<"3","0">>], [k |-> "star", r |-> [k |-> "set", cs |-> Whitespace]], [k |-> "lit", s |-> <<"d","a","y","s">>]>>], [k |-> "lit", s |-> <<"d","a","y"," ","3","0">>]>>]

\* The derivable fields up to facility_level_guess
WithFieldsBeforeSpeciality(r) ==
    LET period == DictGet(r, ColStudyPeriod, EmptyStr)
        method == tolower(DictGet(r, ColMethod, EmptyStr))
        procedures == parse_int_safe(DictGet(r, ColTotalProcedures, EmptyStr))
    IN  DictSetAll(r, <<
        <<<<"y","e","a","r","_","s","t","a","r","t">>, parse_years(period).ys>>,
        <<<<"y","e","a","r","_","e","n","d">>, parse_years(period).ye>>,
        <<<<"p","e","r","i","o","d","_","s","t","a","r","t","_","d","a","t","e">>, parse_period_dates(period).start>>,
        <<<<"p","e","r","i","o","d","_","e","n","d","_","d","a","t","e">>, parse_period_dates(period).end>>,
        <<<<"t","o","t","a","l","_","s","a","m","p","l","e","_","n","_","p","a","r","s","e","d">>, parse_int_safe(DictGet(r, ColSampleN, EmptyStr))>>,
        <<ColProceduresParsed, procedures>>,
        <<ColSSIsParsed, parse_int_safe(DictGet(r, ColTotalSSIs, EmptyStr))>>,
        <<<<"t","o","t","a","l","_","s","s","i","_","i","s","o","l","a","t","e","s","_","n","_","p","a","r","s","e","d">>, parse_int_safe(DictGet(r, ColTotalIsolates, EmptyStr))>>,
        <<<<"s","e","x","_","f","e","m","a","l","e","_","p","c","t","_","p","a","r","s","e","d">>, parse_percent_safe(DictGet(r, ColSexFemale, EmptyStr))>>,
        <<<<"a","d","h","e","r","e","n","c","e","_","g","u","i","d","e","l","i","n","e","s","_","p","c","t","_","p","a","r","s","e","d">>, parse_percent_safe(DictGet(r, ColAdherence, EmptyStr))>>,
        <<ColIncidenceParsed, parse_percent_safe(DictGet(r, ColIncidence, EmptyStr))>>,
        <<<<"d","i","a","g","n","o","s","i","s","_","c","d","c","_","g","u","i","d","e","l","i","n","e","s">>, yes_no_unclear(Contains(method, <<"c","d","c">>), method # EmptyStr)>>,
        <<<<"l","a","b","_","c","u","l","t","u","r","e","_","c","o","n","f","i","r","m","e","d">>, yes_no_unclear(Contains(method, <<"c","u","l","t","u","r","e">>), method # EmptyStr)>>,
        <<<<"f","o","l","l","o","w","u","p","_","3","0","d">>, IF Search(ReFollowup30, method) THEN Yes
                            ELSE IF method # EmptyStr THEN No ELSE Unclear>>,
        <<<<"s","s","i","_","d","e","n","o","m","i","n","a","t","o","r","_","t","y","p","e">>,
          IF Truthy(procedures) THEN <<"p","r","o","c","e","d","u","r","e","s">>
          ELSE IF Contains(tolower(DictGet(r, ColPopulation, EmptyStr)), <<"s","s","i">>)
               THEN <<"S","S","I"," ","c","o","h","o","r","t"," ","o","n","l","y">> ELSE <<"u","n","c","l","e","a","r">>>>,
        <<<<"c","o","u","n","t","r","y","_","l","i","s","t">>, Join(country_standardize(DictGet(r, ColCountry, EmptyStr)), <<";"," ">>)>>,
        <<<<"f","a","c","i","l","i","t","y","_","l","e","v","e","l","_","g","u","e","s","s">>, facility_level_guess(DictGet(r, ColSetting, EmptyStr))>> >>)

\* main's has_num(col) for the record r
has_num(r, col) ==
    LET cell == DictGet(r, col, EmptyStr)
    IN  Truthy(parse_percent_safe(OrElse(cell, parse_int_safe(cell))))

YesIf(b) == IF b THEN Yes ELSE No

\* The five presence flags of a record
PresenceFlags(r) == <<
    <<ColHasMortality, YesIf(\E c \in {ColMortalityAttr, ColMortality30, ColMortality90} : has_num(r, c))>>,
    <<ColHasReadmission, YesIf(has_num(r, ColReadmission))>>,
    <<ColHasReoperation, YesIf(has_num(r, ColReoperation))>>,
    <<ColHasLOS, YesIf(Truthy(OrElse(DictGet(r, ColTotalLOS, EmptyStr),
                                     DictGet(r, ColAdditionalLOS, EmptyStr))))>>,
    <<ColHasEconomic, YesIf(Truthy(OrElse(DictGet(r, econ_dir_col, EmptyStr),
                                          DictGet(r, econ_ind_col, EmptyStr))))>> >>

\* The derivable fields from speciality_set on; only called when
\* map_specialities returns
WithFieldsFromSpeciality(r) ==
    DictSetAll(r, <<
        <<<<"s","p","e","c","i","a","l","i","t","y","_","s","e","t">>, map_specialities(DictGet(r, ColSpeciality, EmptyStr))>>,
        <<<<"p","r","o","c","e","d","u","r","e","_","g","r","o","u","p">>, map_procedures(DictGet(r, ColProcedures, EmptyStr))>>,
        <<<<"p","a","t","h","o","g","e","n","1","_","s","t","d">>, pathogen_std(DictGet(r, ColPathogen1, EmptyStr))>>,
        <<<<"p","a","t","h","o","g","e","n","2","_","s","t","d">>, pathogen_std(DictGet(r, ColPathogen2, EmptyStr))>>,
        <<<<"p","a","t","h","o","g","e","n","3","_","s","t","d">>, pathogen_std(DictGet(r, ColPathogen3, EmptyStr))>> >>
        \o PresenceFlags(r))

\* Whether the derivable-fields pass raises on the record
Raises(r) == map_specialities(DictGet(r, ColSpeciality, EmptyStr)) = AttributeError

\* rs with f applied to the records whose index is in idx
Update(rs, idx, f(_)) == [n \in 1..Len(rs) |-> IF n \in idx THEN f(rs[n]) ELSE rs[n]]

\* The records main() shortlists, projected onto shortlist_cols
Project(r, cols) == DictSetAll(EmptyDict, [c \in 1..Len(cols) |-> <<cols[c], DictGet(r, cols[c], EmptyStr)>>])

Shortlisted_All(r) == \A c \in 1..Len(flag_cols) : DictGet(r, flag_cols[c], No) = No

Shortlisted(r) == \E c \in 1..Len(flag_cols) : DictGet(r, flag_cols[c], No) = No

re_rows_of(rs, kept) ==
    LET sel == SelectSeq(kept, LAMBDA i : Shortlisted(rs[i]))
    IN  [n \in 1..Len(sel) |-> Project(rs[sel[n]], shortlist_cols)]

MsgEmpty == <<"I","n","p","u","t"," ","C","S","V"," ","a","p","p","e","a","r","s"," ","e","m","p","t","y">>
MsgMissing(c) == <<"M","i","s","s","i","n","g"," ","e","x","p","e","c","t","e","d"," ","c","o","l","u","m","n",":"," ">> \o c
MsgAttributeError == <<"A","t","t","r","i","b","u","t","e","E","r","r","o","r",":"," ","'","N","o","n","e","T","y","p","e","'"," ","o","b","j","e","c","t"," ","h","a","s"," ","n","o"," ","a","t","t","r","i","b","u","t","e"," ","'","s","t","r","i","p","'">>

----------------------------------------------------------------------------
(* main(): one action per step                                              *)

\* rows = read_csv(IN_PATH)
ReadCsv ==
    /\ pc = "start"
    /\ rows' = read_csv(header, raw)
    /\ pc' = "read"
    /\ UNCHANGED <<header, raw, dedup, fieldnames, files, written, exit_msg, arg, ret>>

\* if not rows: raise SystemExit
CheckNotEmpty ==
    /\ pc = "read"
    /\ IF rows = <<>>
       THEN pc' = "aborted" /\ exit_msg' = MsgEmpty
       ELSE pc' = "nonempty" /\ UNCHANGED exit_msg
    /\ UNCHANGED <<header, raw, rows, dedup, fieldnames, files, written, arg, ret>>

\* for c in key_cols: if c not in rows[0]: raise SystemExit
CheckKeyColumns ==
    /\ pc = "nonempty"
    /\ LET missing == SelectSeq(key_cols, LAMBDA c : ~HasKey(rows[1], c))
       IN  IF missing # <<>>
           THEN pc' = "aborted" /\ exit_msg' = MsgMissing(missing[1])
           ELSE pc' = "checked" /\ UNCHANGED exit_msg
    /\ UNCHANGED <<header, raw, rows, dedup, fieldnames, files, written, arg, ret>>

\* the loop that fills seen and dedup
Deduplicate ==
    /\ pc = "checked"
    /\ dedup' = DedupLoop(rows, 1, {}, <<>>)
    /\ pc' = "deduped"
    /\ UNCHANGED <<header, raw, rows, fieldnames, files, written, exit_msg, arg, ret>>

\* for r in dedup: r['Study Design (MECE)'] = ...
AddStudyDesign ==
    /\ pc = "deduped"
    /\ rows' = Update(rows, SeqRange(dedup), WithDesign)
    /\ pc' = "designed"
    /\ UNCHANGED <<header, raw, dedup, fieldnames, files, written, exit_msg, arg, ret>>

\* for r in dedup: the five theme fields
AddThemes ==
    /\ pc = "designed"
    /\ rows' = Update(rows, SeqRange(dedup), WithThemes)
    /\ pc' = "tagged"
    /\ UNCHANGED <<header, raw, dedup, fieldnames, files, written, exit_msg, arg, ret>>

\* for r in dedup: the derivable fields.  The loop stops at the first record
\* on which a call raises, with the records before it done and that record
\* done up to the call.
AddDerivableFields ==
    /\ pc = "tagged"
    /\ LET bad == SelectSeq(dedup, LAMBDA i : Raises(rows[i]))
           Full(r) == WithFieldsFromSpeciality(WithFieldsBeforeSpeciality(r))
       IN  IF bad = <<>>
           THEN /\ rows' = Update(rows, SeqRange(dedup), Full)
                /\ pc' = "derived"
                /\ UNCHANGED exit_msg
           ELSE /\ rows' = [n \in 1..Len(rows) |->
                              IF n \in SeqRange(dedup) /\ n < bad[1] THEN Full(rows[n])
                              ELSE IF n = bad[1] THEN WithFieldsBeforeSpeciality(rows[n])
                              ELSE rows[n]]
                /\ pc' = "crashed"
                /\ exit_msg' = MsgAttributeError
    /\ UNCHANGED <<header, raw, dedup, fieldnames, files, written, arg, ret>>

\* fieldnames = original_fields + [c for c in new_fields if c not in original_fields]
ComputeFieldnames ==
    /\ pc = "derived"
    /\ LET original_fields == rows[1].ks
       IN  fieldnames' = original_fields
               \o SelectSeq(new_fields, LAMBDA c : c \notin SeqRange(original_fields))
    /\ pc' = "ordered"
    /\ UNCHANGED <<header, raw, rows, dedup, files, written, exit_msg, arg, ret>>

Kept == [n \in 1..Len(dedup) |-> rows[dedup[n]]]

\* write_csv(OUT_PATH, dedup, fieldnames)
WriteCleaned ==
    /\ pc = "ordered"
    /\ files' = [files EXCEPT ![OUT_PATH] = write_csv(Kept, fieldnames)]
    /\ written' = Append(written, OUT_PATH)
    /\ pc' = "cleaned"
    /\ UNCHANGED <<header, raw, rows, dedup, fieldnames, exit_msg, arg, ret>>

\* write_csv(OUT_ENRICHED, dedup, fieldnames)
WriteEnriched ==
    /\ pc = "cleaned"
    /\ files' = [files EXCEPT ![OUT_ENRICHED] = write_csv(Kept, fieldnames)]
    /\ written' = Append(written, OUT_ENRICHED)
    /\ pc' = "enriched"
    /\ UNCHANGED <<header, raw, rows, dedup, fieldnames, exit_msg, arg, ret>>

\* re_rows, and write_csv(OUT_REEXTRACT, re_rows, shortlist_cols) if any
WriteShortlist ==
    /\ pc = "enriched"
    /\ LET re_rows == re_rows_of(rows, dedup)
       IN  IF re_rows # <<>>
           THEN /\ files' = [files EXCEPT ![OUT_REEXTRACT] = write_csv(re_rows, shortlist_cols)]
                /\ written' = Append(written, OUT_REEXTRACT)
           ELSE UNCHANGED <<files, written>>
    /\ pc' = "done"
    /\ UNCHANGED <<header, raw, rows, dedup, fieldnames, exit_msg, arg, ret>>

Next ==
    \/ ReadCsv
    \/ CheckNotEmpty
    \/ CheckKeyColumns
    \/ Deduplicate
    \/ AddStudyDesign
    \/ AddThemes
    \/ AddDerivableFields
    \/ ComputeFieldnames
    \/ WriteCleaned
    \/ WriteEnriched
    \/ WriteShortlist

----------------------------------------------------------------------------
(* Bounded inputs: texts are up to a few fragments joined by single spaces *)

\* The sequences of at most n elements of S
SeqsUpTo(S, n) == UNION {[1..k -> S] : k \in 0..n}

TextsOver(frags, n) == {Join(ws, <<" ">>) : ws \in SeqsUpTo(frags, n)}

MaxDesignFragments == 2

DesignFragments == {
    <<"S","e","c","o","n","d","a","r","y"," ","a","n","a","l","y","s","i","s">>, <<"o","f"," ","a","n"," ","R","C","T">>, <<"p","o","s","t","-","h","o","c">>, <<"o","f"," ","a"," ","r","a","n","d","o","m","i","s","e","d"," ","t","r","i","a","l">>,
    <<"r","a","n","d","o","m"," ","s","a","m","p","l","e">>, <<"R","C","T","s">>, <<"R","a","n","d","o","m","i","z","e","d"," ","c","o","n","t","r","o","l","l","e","d"," ","t","r","i","a","l">>, <<"c","o","h","o","r","t">>,
    <<"m","u","l","t","i","c","e","n","t","r","e">>, <<"c","r","o","s","s","-","s","e","c","t","i","o","n","a","l">>, <<"s","u","r","v","e","y">>, <<"p","r","e">>, <<"p","o","s","t">>,
    <<"s","u","r","v","e","i","l","l","a","n","c","e">>, <<"L","a","b","o","r","a","t","o","r","y","-","b","a","s","e","d">>, <<"c","a","s","e"," ","s","e","r","i","e","s">>, <<" ">> }

DesignInputs == {NoneVal} \cup TextsOver(DesignFragments, MaxDesignFragments)

MaxTagFragments == 2

TagFragments(dim) ==
    CASE dim = "drivers" ->
            { <<"A","n","t","i","b","i","o","t","i","c"," ","m","i","s","u","s","e">>, <<"s","o","l","d"," ","o","v","e","r"," ","t","h","e"," ","c","o","u","n","t","e","r">>, <<"p","o","o","r"," ","h","a","n","d"," ","h","y","g","i","e","n","e">>,
              <<"p","r","o","l","o","n","g","e","d"," ","p","r","o","p","h","y","l","a","x","i","s">>, <<"i","n"," ","t","h","e"," ","c","o","m","m","u","n","i","t","y">>, <<"n","o","n","e"," ","s","t","a","t","e","d">> }
      [] dim = "interventions" ->
            { <<"I","P","C"," ","t","r","a","i","n","i","n","g">>, <<"A","M","S"," ","p","r","o","g","r","a","m","s">>, <<"s","u","r","v","e","i","l","l","a","n","c","e"," ","o","f"," ","S","S","I">>,
              <<"c","u","l","t","u","r","e"," ","a","n","d"," ","A","S","T">>, <<"t","r","i","c","l","o","s","a","n"," ","s","u","t","u","r","e","s">>, <<"f","a","s","t","i","n","g">> }
      [] dim = "gaps" ->
            { <<"a","n","a","e","r","o","b","e","s"," ","n","o","t"," ","a","s","s","e","s","s","e","d">>, <<"S","m","a","l","l"," ","s","a","m","p","l","e">>, <<"l","o","s","t"," ","t","o"," ","f","o","l","l","o","w","-","u","p">>,
              <<"n","o"," ","d","a","t","a"," ","o","n"," ","m","o","r","t","a","l","i","t","y">>, <<"l","a","c","k"," ","o","f"," ","p","o","l","i","c","y">>, <<"u","n","k","n","o","w","n">> }
      [] dim = "policy" ->
            { <<"n","o"," ","n","a","t","i","o","n","a","l"," ","s","u","r","v","e","i","l","l","a","n","c","e">>, <<"S","L","I","P","T","A"," ","a","c","c","r","e","d","i","t","a","t","i","o","n">>, <<"g","u","i","d","e","l","i","n","e"," ","e","x","i","s","t","s">>,
              <<"s","o","l","d"," ","w","i","t","h","o","u","t"," ","p","r","e","s","c","r","i","p","t","i","o","n">>, <<"c","o","o","r","d","i","n","a","t","i","n","g"," ","b","o","d","y">>, <<"n","i","l">> }

\* One cell of the two economic columns
EconCells == { NoneVal, EmptyStr, <<"N","o","t"," ","r","e","p","o","r","t","e","d">>, <<"c","o","s","t"," ","s","a","v","i","n","g","s"," ","t","o"," ","h","o","s","p","i","t","a","l">>,
               <<"o","u","t","-","o","f","-","p","o","c","k","e","t",","," ","c","a","t","a","s","t","r","o","p","h","i","c">>, <<"l","o","n","g","e","r"," ","b","e","d","-","d","a","y","s">> }

TagInputs ==
    {[dim |-> d, a |-> t, b |-> EmptyStr] :
        d \in {"drivers"}, t \in {NoneVal} \cup TextsOver(TagFragments("drivers"), MaxTagFragments)}
    \cup {[dim |-> d, a |-> t, b |-> EmptyStr] :
        d \in {"interventions"}, t \in {NoneVal} \cup TextsOver(TagFragments("interventions"), MaxTagFragments)}
    \cup {[dim |-> d, a |-> t, b |-> EmptyStr] :
        d \in {"gaps"}, t \in {NoneVal} \cup TextsOver(TagFragments("gaps"), MaxTagFragments)}
    \cup {[dim |-> d, a |-> t, b |-> EmptyStr] :
        d \in {"policy"}, t \in {NoneVal} \cup TextsOver(TagFragments("policy"), MaxTagFragments)}
    \cup {[dim |-> "economic", a |-> t, b |-> u] : t \in EconCells, u \in EconCells}


MaxPeriodFragments == 3

PeriodFragments == {
    <<"M","a","r","c","h"," ","2","0","1","5">>, <<"t","o">>, <<"J","u","n","e"," ","2","0","1","6">>, <<"1","5"," ","J","a","n"," ","2","0","1","6">>, <<"2","0","1","4">>, <<"-">>,
    <<"3"," ","M","a","y"," ","2","0","1","7">>, <<"1","9","9","9">> }

PeriodInputs == {NoneVal, <<" "," ">>} \cup TextsOver(PeriodFragments, MaxPeriodFragments)

MaxKeywordFragments == 2

KeywordFragments == {
    <<"O","b","s","t","e","t","r","i","c","s">>, <<"G","e","n","e","r","a","l">>, <<"O","r","t","h","o","p","a","e","d","i","c">>, <<"u","r","o","l","o","g","y">>, <<"C","a","e","s","a","r","e","a","n">>,
    <<"h","e","r","n","i","a">>, <<"T","e","a","c","h","i","n","g">>, <<"D","i","s","t","r","i","c","t">>, <<"p","r","i","v","a","t","e">>, <<"w","o","u","n","d"," ","c","l","o","s","u","r","e">> }

KeywordInputs == {NoneVal, <<" "," ">>} \cup TextsOver(KeywordFragments, MaxKeywordFragments)


----------------------------------------------------------------------------
(* Bounded inputs of main(): an input file is a header and up to MaxRows    *)
(* lines, each line a study's cells under that header, whole, cut short or  *)
(* with a cell too many                                                     *)

MaxRows == 2

ColYearStart == <<"y","e","a","r","_","s","t","a","r","t">>

HeaderMain == <<ColAuthor, ColYear, ColTitle, ColStudyDesign, ColStudyPeriod, ColSpeciality,
                ColTotalProcedures, ColMethod, ColMortality30, ColReadmission, ColReoperation,
                ColTotalLOS, econ_dir_col>>
HeaderNoTitle == <<ColAuthor, ColYear, ColStudyDesign, ColSpeciality, ColMortality30>>
HeaderNoKeys == <<ColStudyDesign, ColSpeciality>>
HeaderDerivedNames == <<<<" ","A","u","t","h","o","r">>, ColYear, <<"T","i","t","l","e"," ","o","f"," ","p","a","p","e","r"," ">>, ColYearStart, ColDesignMECE,
                        ColSpeciality, ColTotalLOS>>
EmptyFile == <<>>

Headers == {HeaderMain, HeaderNoTitle, HeaderNoKeys, HeaderDerivedNames, EmptyFile}

\* Studies: the text of the cells that are not ''
StudyA == DictSetAll(EmptyDict, <<
    <<ColAuthor, <<"A","b","e","b","e">>>>, <<ColYear, <<"2","0","1","9">>>>, <<ColTitle, <<"S","S","I"," ","a","f","t","e","r"," ","s","u","r","g","e","r","y">>>>,
    <<ColStudyDesign, <<"R","a","n","d","o","m","i","z","e","d"," ","c","o","n","t","r","o","l","l","e","d"," ","t","r","i","a","l">>>>,
    <<ColStudyPeriod, <<"M","a","r","c","h"," ","2","0","1","5"," ","t","o"," ","J","u","n","e"," ","2","0","1","6">>>>,
    <<ColSpeciality, <<"G","e","n","e","r","a","l"," ","a","n","d"," ","O","r","t","h","o","p","a","e","d","i","c">>>>, <<ColTotalProcedures, <<"1",",","2","0","0">>>>,
    <<ColMethod, <<"C","D","C"," ","c","r","i","t","e","r","i","a",","," ","3","0","-","d","a","y"," ","f","o","l","l","o","w","-","u","p">>>>,
    <<ColMortality30, <<"2",".","5","%">>>>, <<ColReadmission, <<"4">>>>, <<ColReoperation, <<"1"," ","o","f"," ","4","0">>>>,
    <<ColTotalLOS, <<"7"," ","d","a","y","s">>>>, <<econ_dir_col, <<"U","S","D"," ","1","2","0"," ","p","e","r"," ","p","a","t","i","e","n","t">>>>,
    <<ColYearStart, <<"2","0","1","0">>>>, <<ColDesignMECE, <<"T","r","i","a","l">>>> >>)

\* The same identity as StudyA, other cells
StudyARepeat == DictSetAll(EmptyDict, <<
    <<ColAuthor, <<"A","b","e","b","e">>>>, <<ColYear, <<"2","0","1","9">>>>, <<ColTitle, <<"S","S","I"," ","a","f","t","e","r"," ","s","u","r","g","e","r","y">>>>,
    <<ColStudyDesign, <<"S","e","c","o","n","d","a","r","y"," ","a","n","a","l","y","s","i","s"," ","o","f"," ","a","n"," ","R","C","T">>>>, <<ColStudyPeriod, <<"J","u","n","e"," ","2","0","1","6">>>>,
    <<ColSpeciality, <<"D","e","n","t","a","l">>>>,
    <<ColMortality30, <<"N","o","t"," ","r","e","p","o","r","t","e","d">>>>, <<ColReoperation, <<"n","/","a">>>>,
    <<ColTotalLOS, <<"n","o","t"," ","r","e","p","o","r","t","e","d">>>>, <<econ_dir_col, <<"N","o","t"," ","r","e","p","o","r","t","e","d">>>> >>)

\* Two identities whose texts joined by '||' are the same
StudyBar1 == DictSetAll(EmptyDict, <<
    <<ColAuthor, <<"L","i">>>>, <<ColYear, <<"2","0","2","0","|","|","x">>>>, <<ColTitle, <<"A","M","R">>>>,
    <<ColSpeciality, <<" "," ">>>>, <<ColMortality30, <<"h","i","g","h">>>>, <<ColTotalLOS, <<" ">>>> >>)
StudyBar2 == DictSetAll(EmptyDict, <<
    <<ColAuthor, <<"L","i","|","|","2","0","2","0">>>>, <<ColYear, <<"x">>>>, <<ColTitle, <<"A","M","R">>>>,
    <<ColStudyDesign, <<"c","o","h","o","r","t">>>>, <<ColReadmission, <<"3">>>> >>)

\* A study with the identity cells only
StudyBare == DictSetAll(EmptyDict, <<
    <<ColAuthor, <<"O","k","e","l","l","o">>>>, <<ColYear, <<"2","0","2","1">>>>, <<ColTitle, <<"W","o","u","n","d","s">>>> >>)

\* The first n cells of a study's line under the header hdr
Line(hdr, study, n) == [c \in 1..n |-> DictGet(study, NormKey(hdr[c]), EmptyStr)]

Lines(hdr) ==
    IF hdr = HeaderMain
    THEN { Line(hdr, StudyA, Len(hdr)), Line(hdr, StudyARepeat, Len(hdr)),
           Line(hdr, StudyBar1, Len(hdr)), Line(hdr, StudyBar2, Len(hdr)),
           Line(hdr, StudyBare, Len(hdr)),
           Line(hdr, StudyBare, 3),
           Line(hdr, StudyA, Len(hdr)) \o <<<<"e","x","t","r","a">>>>,
           <<>> }
    ELSE IF hdr = EmptyFile THEN {}
    ELSE { Line(hdr, StudyA, Len(hdr)), Line(hdr, StudyBare, Len(hdr)) }

\* An output left by an earlier run
StaleFile == [exists |-> TRUE, header |-> <<<<"s","t","a","l","e">>>>, rows |-> <<>>]

Init ==
    /\ pc = "start"
    /\ header \in Headers
    /\ raw \in SeqsUpTo(Lines(header), MaxRows)
    /\ rows = <<>>
    /\ dedup = <<>>
    /\ fieldnames = <<>>
    /\ files \in {[p \in OutPaths |-> NoFile], [p \in OutPaths |-> StaleFile]}
    /\ written = <<>>
    /\ exit_msg = NoneVal
    /\ arg = NoneVal
    /\ ret = NoneVal

Spec == Init /\ [][Next]_vars

----------------------------------------------------------------------------
(* A single call of one function on one input                               *)

IdlePipeline ==
    /\ header = <<>> /\ raw = <<>> /\ rows = <<>> /\ dedup = <<>>
    /\ fieldnames = <<>> /\ files = <<>> /\ written = <<>> /\ exit_msg = NoneVal

InitDesign ==
    /\ pc = "call"
    /\ arg \in DesignInputs
    /\ ret = NoneVal
    /\ IdlePipeline

CallNormalizeDesign ==
    /\ pc = "call"
    /\ ret' = normalize_design(arg)
    /\ pc' = "return"
    /\ UNCHANGED <<arg, pvars>>

NextDesign == CallNormalizeDesign

SpecDesign == InitDesign /\ [][NextDesign]_vars

\* The rule set main() uses for a thematic dimension
RuleSetOf(dim) ==
    CASE dim = "drivers" -> drivers_patterns
      [] dim = "interventions" -> interv_patterns
      [] dim = "gaps" -> gaps_patterns
      [] dim = "policy" -> policy_patterns
      [] dim = "economic" -> econ_patterns

\* The text main() hands to tag_by_patterns for a dimension: the source
\* cell, or econ_combined of the two economic cells
TagSourceText(dim, a, b) == IF dim = "economic" THEN econ_combined(a, b) ELSE a

InitTag ==
    /\ pc = "call"
    /\ arg \in TagInputs
    /\ ret = NoneVal
    /\ IdlePipeline

CallTagByPatterns ==
    /\ pc = "call"
    /\ ret' = tag_by_patterns(TagSourceText(arg.dim, arg.a, arg.b), RuleSetOf(arg.dim))
    /\ pc' = "return"
    /\ UNCHANGED <<arg, pvars>>

NextTag == CallTagByPatterns

SpecTag == InitTag /\ [][NextTag]_vars

InitDates ==
    /\ pc = "call"
    /\ arg \in PeriodInputs
    /\ ret = NoneVal
    /\ IdlePipeline

CallParsePeriodDates ==
    /\ pc = "call"
    /\ ret' = parse_period_dates(arg)
    /\ pc' = "return"
    /\ UNCHANGED <<arg, pvars>>

NextDates == CallParsePeriodDates

SpecDates == InitDates /\ [][NextDates]_vars

InitKeywords ==
    /\ pc = "call"
    /\ arg \in KeywordInputs
    /\ ret = NoneVal
    /\ IdlePipeline

CallMapSpecialities ==
    /\ pc = "call"
    /\ ret' = [fn |-> "map_specialities", val |-> map_specialities(arg)]
    /\ pc' = "return"
    /\ UNCHANGED <<arg, pvars>>

CallMapProcedures ==
    /\ pc = "call"
    /\ ret' = [fn |-> "map_procedures", val |-> map_procedures(arg)]
    /\ pc' = "return"
    /\ UNCHANGED <<arg, pvars>>

CallFacilityLevelGuess ==
    /\ pc = "call"
    /\ ret' = [fn |-> "facility_level_guess", val |-> facility_level_guess(arg)]
    /\ pc' = "return"
    /\ UNCHANGED <<arg, pvars>>

NextKeywords ==
    \/ CallMapSpecialities
    \/ CallMapProcedures
    \/ CallFacilityLevelGuess

SpecKeywords == InitKeywords /\ [][NextKeywords]_vars

----------------------------------------------------------------------------
(* Claims about main() (checked under Spec)                                 *)

\* The records as read_csv delivered them, before any enrichment
InputRows == read_csv(header, raw)

\* The identity triple of a record
Triple(r) ==
    <<DictGet(r, ColAuthor, EmptyStr), DictGet(r, ColYear, EmptyStr), DictGet(r, ColTitle, EmptyStr)>>

\* C1: the deduplicated set holds exactly one record per distinct identity
\* triple of the input, two triples being the same only when their three
\* texts are: it holds the first row of each triple, in input order (the
\* claim as stated).
C1_OnePerTriple ==
    pc = "deduped" =>
        /\ \A i \in 1..Len(rows) :
               (i \in SeqRange(dedup)) <=> (\A j \in 1..(i - 1) : Triple(rows[j]) # Triple(rows[i]))
        /\ \A m, n \in 1..Len(dedup) : m < n => dedup[m] < dedup[n]

\* The outcome columns behind each presence flag
FlagSources(flag) ==
    CASE flag = ColHasMortality -> {ColMortalityAttr, ColMortality30, ColMortality90}
      [] flag = ColHasReadmission -> {ColReadmission}
      [] flag = ColHasReoperation -> {ColReoperation}
      [] flag = ColHasLOS -> {ColTotalLOS, ColAdditionalLOS}
      [] flag = ColHasEconomic -> {econ_dir_col, econ_ind_col}

Enriched == pc \in {"derived", "ordered", "cleaned", "enriched", "done"}

\* C2: each presence flag of a record is 'yes' if one of its outcome
\* columns has a value by has_value, and 'no' otherwise (the claim as
\* stated).
C2_FlagsByHasValue ==
    Enriched =>
        \A n \in 1..Len(dedup) : \A f \in 1..Len(flag_cols) :
            DictGet(rows[dedup[n]], flag_cols[f], EmptyStr) =
                YesIf(\E c \in FlagSources(flag_cols[f]) :
                          has_value(DictGet(InputRows[dedup[n]], c, EmptyStr)))

\* The cell of a written table's n-th row under the column name; '' when
\* the table has no such column
Cell(file, n, name) ==
    IF \E c \in 1..Len(file.header) : file.header[c] = name
    THEN file.rows[n][CHOOSE c \in 1..Len(file.header) : file.header[c] = name]
    ELSE EmptyStr

\* The rows of the enriched table with a presence flag 'no'
NeedsReextraction(file) ==
    SelectSeq([n \in 1..Len(file.rows) |-> n],
              LAMBDA n : \E f \in 1..Len(flag_cols) : Cell(file, n, flag_cols[f]) = No)

WroteShortlist == \E n \in 1..Len(written) : written[n] = OUT_REEXTRACT

\* C3: the shortlist holds exactly the records with a presence flag 'no',
\* in the order of the deduplicated set, projected onto shortlist_cols; it
\* is written if and only if a record is selected, and only after the
\* enriched table.
C3_Shortlist ==
    /\ WroteShortlist => (pc = "done" /\ written = <<OUT_PATH, OUT_ENRICHED, OUT_REEXTRACT>>)
    /\ pc = "done" =>
           LET enriched == files[OUT_ENRICHED]
               shortlist == files[OUT_REEXTRACT]
               sel == NeedsReextraction(enriched)
           IN  /\ Len(enriched.rows) = Len(dedup)
               /\ WroteShortlist <=> sel # <<>>
               /\ WroteShortlist =>
                      /\ shortlist.header = shortlist_cols
                      /\ Len(shortlist.rows) = Len(sel)
                      /\ \A n \in 1..Len(sel) : \A c \in 1..Len(shortlist_cols) :
                             shortlist.rows[n][c] = Cell(enriched, sel[n], shortlist_cols[c])
               /\ ~WroteShortlist => shortlist \in {NoFile, StaleFile}

C3_Witness ==
    /\ pc = "done"
    /\ WroteShortlist
    /\ Len(files[OUT_ENRICHED].rows) = 2
    /\ NeedsReextraction(files[OUT_ENRICHED]) = <<2>>
    /\ Len(files[OUT_REEXTRACT].rows) = 1

\* C6: once the input is loaded with its key columns, enriching the records
\* never raises, whatever a cell holds (the claim as stated).
C6_EnrichmentNeverRaises == pc # "crashed"

\* C7: under every column of the input header the enriched table holds, for
\* every record kept, the value the input holds there (the claim as
\* stated).
C7_RoundTrip ==
    pc \in {"enriched", "done"} =>
        \A n \in 1..Len(dedup) : \A c \in 1..Len(header) :
            Cell(files[OUT_ENRICHED], n, NormKey(header[c]))
                = CsvText(DictGet(InputRows[dedup[n]], NormKey(header[c]), EmptyStr))

\* The key columns the input header lacks
MissingKeys ==
    SelectSeq(<<ColAuthor, ColYear, ColTitle>>,
              LAMBDA k : \A c \in 1..Len(header) : NormKey(header[c]) # k)

FilesUntouched ==
    /\ written = <<>>
    /\ files \in {[p \in OutPaths |-> NoFile], [p \in OutPaths |-> StaleFile]}

Terminated == pc \in {"aborted", "crashed", "done"}

InputColumns == [c \in 1..Len(header) |-> NormKey(header[c])]

\* C12: the header of the enriched table is the columns of the input header
\* in their order, then the derived-column names in their declared order
\* less those that are input columns already, and no name is in it twice
\* (the claim as stated).
C12_EnrichedHeader ==
    pc \in {"enriched", "done"} =>
        LET out == files[OUT_ENRICHED].header
        IN  /\ out = InputColumns
                       \o SelectSeq(new_fields, LAMBDA c : c \notin SeqRange(InputColumns))
            /\ \A j, k \in 1..Len(out) : j # k => out[j] # out[k]

----------------------------------------------------------------------------
(* Claims about normalize_design (checked under SpecDesign)                 *)

DesignLabels == {LabelRCT, LabelSecondary, LabelBeforeAfter, LabelCohort,
                 LabelCrossSectional, LabelSurveillance, LabelLaboratory, LabelOther}

\* The text describes a secondary or post-hoc analysis of a randomized trial.
SecondaryOfRct(x) == Search(ReSecondary, x) /\ Search(ReRct, x)

\* C4: a design text that matches both the secondary/post-hoc-analysis rule
\* and the randomization rule is classified 'Secondary analysis (RCT)', not
\* 'RCT' (the claim as stated).
C4_SecondaryNotPlainRct ==
    (pc = "return" /\ SecondaryOfRct(tolower(arg))) => ret = LabelSecondary

SomeDesignRuleMatches(x) ==
    \/ \E re \in {ReRct, ReSecondary, ReBeforeAfter, ReCohort, ReCrossSectional,
                   ReSurveillance, ReLaboratory, ReObservationalCohort} : Search(re, x)
    \/ (Search(ReMulticentre, x) /\ Search(ReCrossOnly, x))

\* C5: normalize_design is total: every input, None and '' included, yields
\* one label of the fixed enumeration, and 'Other' exactly when no rule
\* matches the lower-cased text.
C5_DesignTotal ==
    pc = "return" =>
        /\ ret \in DesignLabels
        /\ (ret = LabelOther) <=> ~SomeDesignRuleMatches(Lower(IF arg = NoneVal THEN EmptyStr ELSE arg))

C5_Witness == pc = "return" /\ arg = NoneVal /\ ret = LabelOther

----------------------------------------------------------------------------
(* Claims about tag_by_patterns (checked under SpecTag)                     *)

\* s.split(sep), sep non-empty
RECURSIVE SplitFrom(_, _, _, _)
SplitFrom(s, sep, i, cur) ==
    IF i > Len(s) THEN <<cur>>
    ELSE IF StartsAt(s, sep, i) THEN <<cur>> \o SplitFrom(s, sep, i + Len(sep), EmptyStr)
    ELSE SplitFrom(s, sep, i + 1, Append(cur, s[i]))

\* The tag list a serialized tag field holds
TagsOf(field) == IF field = EmptyStr THEN <<>> ELSE SplitFrom(field, <<";"," ">>, 1, EmptyStr)

\* A cell without text: absent or ''
NoText(cell) == cell = NoneVal \/ cell = EmptyStr

CellText(cell) == IF cell = NoneVal THEN EmptyStr ELSE cell

\* The lower-cased text a dimension's patterns are matched against
MatchedText(dim, a, b) ==
    IF dim = "economic" THEN Lower(CellText(a)) \o <<" ">> \o Lower(CellText(b))
    ELSE Lower(CellText(a))

\* C9: the tag field lists exactly the labels of the rule set whose pattern
\* matches the lower-cased text, each once, in declaration order, joined by
\* '; '; no label from outside the rule set; no text, no tags (for the
\* economic dimension: both cells without text).
C9_TagUnion ==
    pc = "return" =>
        LET patterns == RuleSetOf(arg.dim)
            txt == MatchedText(arg.dim, arg.a, arg.b)
            tags == TagsOf(ret)
            Index(t) == CHOOSE n \in 1..Len(patterns) : patterns[n].name = t
        IN  /\ \A k \in 1..Len(tags) : \E n \in 1..Len(patterns) : patterns[n].name = tags[k]
            /\ \A n \in 1..Len(patterns) :
                   (\E k \in 1..Len(tags) : tags[k] = patterns[n].name)
                       <=> Search(patterns[n].pat, txt)
            /\ \A j, k \in 1..Len(tags) : j < k => Index(tags[j]) < Index(tags[k])
            /\ (NoText(arg.a) /\ (arg.dim = "economic" => NoText(arg.b))) => ret = EmptyStr

C9_Witness ==
    /\ pc = "return"
    /\ arg.dim = "interventions"
    /\ ret = <<"I","P","C"," ","m","e","a","s","u","r","e","s",";"," ","E","d","u","c","a","t","i","o","n","/","t","r","a","i","n","i","n","g",";"," ","D","i","a","g","n","o","s","t","i","c","s","/","A","S","T"," ","e","x","p","a","n","s","i","o","n">>

----------------------------------------------------------------------------
(* Claims about parse_period_dates (checked under SpecDates)                *)

\* The date a '[day] month-name year' token stands for, with the defaults
\* for a missing day and for a word that is no month name
TokenDate(tok, defaultDay, defaultMonth) ==
    FormatDate(tok.year,
               IF month_to_num(tok.month) # 0 THEN month_to_num(tok.month) ELSE defaultMonth,
               IF tok.day # EmptyStr THEN tok.day ELSE defaultDay)

\* Every token found names a month: the word of each is a key of MONTHS.
AllMonthTokens(m) == \A n \in 1..Len(m) : month_to_num(m[n].month) # 0

\* C10: with one or more '[day] month-name year' tokens in the text, the
\* start date is the first token's (day 01 by default) and the end date is
\* the last token's (day 28 by default), the same token when there is only
\* one; the year-only boundaries are used only when there is no token, and
\* '' when there is no year either (the claim as stated).
C10_EndFromLastToken ==
    pc = "return" =>
        LET m == FindDateTokens(tolower(arg), 1)
            y == parse_years(arg)
        IN  /\ (Len(m) >= 1 /\ AllMonthTokens(m)) =>
                   /\ ret.start = TokenDate(m[1], <<"0","1">>, 1)
                   /\ ret.end = TokenDate(m[Len(m)], <<"2","8">>, 12)
            /\ Len(m) = 0 =>
                   /\ ret.start = (IF y.ys # EmptyStr THEN y.ys \o <<"-","0","1","-","0","1">> ELSE EmptyStr)
                   /\ ret.end = (IF y.ye # EmptyStr THEN y.ye \o <<"-","1","2","-","3","1">> ELSE EmptyStr)

----------------------------------------------------------------------------
(* Claims about the keyword mappers (checked under SpecKeywords)            *)

\* The labels of map_specialities and the keywords of each
SpecialityKeywords == <<
    [label |-> <<"O","B","G","Y","N">>, words |-> {<<"o","b","s","t">>, <<"g","y","n">>}],
    [label |-> <<"G","e","n","e","r","a","l"," ","S","u","r","g","e","r","y">>, words |-> {<<"g","e","n","e","r","a","l">>}],
    [label |-> <<"O","r","t","h","o","p","e","d","i","c","s","/","T","r","a","u","m","a">>, words |-> {<<"o","r","t","h","o","p">>, <<"t","r","a","u","m","a">>}],
    [label |-> <<"P","e","d","i","a","t","r","i","c","s">>, words |-> {<<"p","e","d","i","a","t","r">>, <<"p","a","e","d","i","a","t","r">>}],
    [label |-> <<"U","r","o","l","o","g","y">>, words |-> {<<"u","r","o","l","o","g">>}],
    [label |-> <<"H","e","a","d"," ","&"," ","N","e","c","k">>, words |-> {<<"h","e","a","d"," ","a","n","d"," ","n","e","c","k">>, <<"h","e","a","d"," ","&"," ","n","e","c","k">>}] >>

\* The labels of map_procedures and the keywords of each
ProcedureKeywords == <<
    [label |-> <<"C","e","s","a","r","e","a","n"," ","s","e","c","t","i","o","n">>, words |-> {<<"c","e","s","a","r","e","a","n">>, <<"c","a","e","s","a","r","e","a","n">>, <<"c","-","s","e","c","t","i","o","n">>}],
    [label |-> <<"L","a","p","a","r","o","t","o","m","y">>, words |-> {<<"l","a","p","a","r","o","t","o","m","y">>}],
    [label |-> <<"D","e","b","r","i","d","e","m","e","n","t">>, words |-> {<<"d","e","b","r","i","d","e","m","e","n","t">>}],
    [label |-> <<"O","R","I","F">>, words |-> {<<"o","r","i","f">>, <<"o","p","e","n"," ","r","e","d","u","c","t","i","o","n">>}],
    [label |-> <<"A","m","p","u","t","a","t","i","o","n">>, words |-> {<<"a","m","p","u","t","a","t","i","o","n">>}],
    [label |-> <<"H","e","r","n","i","a"," ","r","e","p","a","i","r">>, words |-> {<<"h","e","r","n","i","a">>}],
    [label |-> <<"A","p","p","e","n","d","e","c","t","o","m","y">>, words |-> {<<"a","p","p","e","n","d","e","c","t">>}] >>

\* The labels of facility_level_guess and the keywords of each, in the order
\* they are tried
FacilityKeywords == <<
    [label |-> <<"t","e","r","t","i","a","r","y","/","r","e","f","e","r","r","a","l","/","t","e","a","c","h","i","n","g">>, words |-> {<<"t","e","r","t","i","a","r","y">>, <<"r","e","f","e","r","r","a","l">>, <<"t","e","a","c","h","i","n","g">>}],
    [label |-> <<"d","i","s","t","r","i","c","t">>, words |-> {<<"d","i","s","t","r","i","c","t">>}],
    [label |-> <<"p","r","i","v","a","t","e">>, words |-> {<<"p","r","i","v","a","t","e">>}],
    [label |-> <<"r","e","g","i","o","n","a","l">>, words |-> {<<"r","e","g","i","o","n","a","l">>}] >>

\* The entries of the table with a keyword in the lower-cased text
MatchedEntries(table, txt) ==
    {n \in 1..Len(table) : \E w \in table[n].words : Contains(txt, w)}

\* val is what the claim asks of a set-valued mapper: 'Other' for text
\* without a keyword, '' for no text, and otherwise the matched labels, each
\* once, in alphabetical order, joined by '; '
SortedLabelSet(table, text, val) ==
    LET hits == MatchedEntries(table, Lower(text))
        tags == TagsOf(val)
    IN  IF hits = {}
        THEN /\ Strip(text) # EmptyStr => val = <<"O","t","h","e","r">>
             /\ text = EmptyStr => val = EmptyStr
        ELSE /\ SeqRange(tags) = {table[n].label : n \in hits}
             /\ \A j, k \in 1..Len(tags) : j < k => StrLess(tags[j], tags[k])

\* val is what the claim asks of facility_level_guess: the label of the
\* first entry with a keyword in the text, 'unspecified' when there is none
FirstLabel(table, text, val) ==
    LET hits == MatchedEntries(table, Lower(text))
    IN  IF hits = {} THEN val = <<"u","n","s","p","e","c","i","f","i","e","d">>
        ELSE val = table[CHOOSE n \in hits : \A k \in hits : n <= k].label

\* C11: for a text without a recognised keyword map_specialities and
\* map_procedures return 'Other' and facility_level_guess 'unspecified'; for
\* the empty text they return '', '' and 'unspecified'; with keywords, the
\* speciality and procedure results are the sorted set of the matched labels
\* and the facility level is the first matching label only (the claim as
\* stated).
C11_KeywordMappers ==
    (pc = "return" /\ arg # NoneVal) =>
        CASE ret.fn = "map_specialities" -> SortedLabelSet(SpecialityKeywords, arg, ret.val)
          [] ret.fn = "map_procedures" -> SortedLabelSet(ProcedureKeywords, arg, ret.val)
          [] ret.fn = "facility_level_guess" -> FirstLabel(FacilityKeywords, arg, ret.val)

====
